---- MODULE Spec2Model ----
(***************************************************************************)
(* Bank-statement extraction and staging pipeline of the ai-service:       *)
(* documents (bank_documents), candidate transactions                      *)
(* (pending_transactions) and the ledger (transactions), with the HTTP     *)
(* handlers of routes/documents.py and routes/transactions.py as actions.  *)
(*                                                                         *)
(* A handler's database work runs in one session: statements act on the    *)
(* session's working copy and become the committed state only at           *)
(* session.commit(); leaving the session by an exception discards them.    *)
(* The variables docs, cands and ledger are the committed state.           *)
(*                                                                         *)
(* Each handler is an operator from the committed state and the request    *)
(* to the new committed state and the HTTP status code it answers; the     *)
(* action of the handler installs that state.  Columns that no handler     *)
(* reads back (file name and size, backend name and model, timings,        *)
(* statement period, timestamps) are left out of the rows.                 *)
(*                                                                         *)
(* Amounts are integers in units of 0.005, so that 0.01 is 2 units.        *)
(***************************************************************************)
EXTENDS Integers, Sequences, FiniteSets, TLC

VARIABLES docs,        \* bank_documents: document id -> row
          cands,       \* pending_transactions: candidate id -> row
          ledger,      \* transactions: set of rows
          files,       \* upload directory: ids of the stored binaries
          nextDoc,     \* fresh ids (uuid4) for documents,
          nextCand,    \*   candidates
          nextLedger,  \*   and ledger rows
          pc,          \* the process call in flight, or Idle
          norm         \* the call of the normalizer under study, or NormIdle

vars == <<docs, cands, ledger, files, nextDoc, nextCand, nextLedger, pc, norm>>

-----------------------------------------------------------------------------
(* Bounds of the model *)

MaxDocs == 2       \* documents uploaded
MaxCands == 2      \* candidate ids issued by process
MaxLedger == 2     \* ledger ids issued by import

-----------------------------------------------------------------------------
(* Values *)

NoneStr == "<null>"     \* SQL NULL / Python None in a text column
NoId == 0               \* SQL NULL in an id column; no document / candidate

Users == {"u1", "u2"}

DocStatuses == {"PENDING", "PROCESSING", "EXTRACTED", "FAILED", "IMPORTED"}
CandStatuses == {"PENDING", "APPROVED", "REJECTED", "DUPLICATE", "IMPORTED"}

MaxUploadBytes == 10485760     \* 10 * 1024 * 1024

DupTolerance == 2              \* 0.01 in units of 0.005

Idle == [doc |-> NoId, llm_provider |-> NoneStr]

NormIdle == [op |-> "idle", step |-> 0]

DB == [docs |-> docs, cands |-> cands, ledger |-> ledger]

\* What a handler call does: the committed state it leaves and its HTTP code.
Outcome(db, code) == [db |-> db, code |-> code]

\* The rows of a table function restricted to the ids in S.
Restrict(f, S) == [x \in S |-> f[x]]

\* Fault: every statement is committed as it is executed (autocommit), so
\* leaving the session by an exception keeps what was done so far.
RollbackKeepsWork(committed, work) == work

\* The session is left without commit: its statements are discarded and the
\* committed state stays what it was.
Rollback(committed, work) == committed

\* session.commit(): the working copy becomes the committed state.
Commit(committed, work) == work

-----------------------------------------------------------------------------
(* upload_document *)

\* `not file.content_type or "pdf" not in file.content_type.lower()` is
\* false: the content type is a non-empty string with "pdf" in its lower case.
IsPdfType(ct) == ct \in {"application/pdf", "APPLICATION/PDF", "application/x-pdf"}

ContentTypes ==
    {"application/pdf", "APPLICATION/PDF", "application/x-pdf", "image/png", "", NoneStr}
UploadSizes == {0, 1, MaxUploadBytes - 1, MaxUploadBytes, MaxUploadBytes + 1}

NewDocument(user) ==
    [status |-> "PENDING", userId |-> user, transactionCount |-> 0,
     processingError |-> NoneStr]

\* Fault: a file of exactly the ceiling is rejected.
UploadResultBelowCeiling(ct, size) ==
    IF ct = NoneStr \/ ~IsPdfType(ct) THEN 400
    ELSE IF size >= MaxUploadBytes THEN 400
    ELSE 200

\* The validation of upload_document: the code it ends with.
UploadResult(ct, size) ==
    IF ct = NoneStr \/ ~IsPdfType(ct) THEN 400
    ELSE IF size > MaxUploadBytes THEN 400
    ELSE 200

\* upload_document as a function of the tables, the stored binaries and the
\* request: a valid file is written under the fresh id and its row INSERTed.
UploadRun(db, stored, ct, size, user, newId) ==
    IF UploadResult(ct, size) = 200
    THEN [db |-> [db EXCEPT !.docs = @ @@ (newId :> NewDocument(user))],
          files |-> stored \cup {newId}, code |-> 200, document_id |-> newId]
    ELSE [db |-> db, files |-> stored, code |-> UploadResult(ct, size),
          document_id |-> NoId]

UploadDocument(ct, size, user) ==
    /\ pc = Idle
    /\ LET r == UploadRun(DB, files, ct, size, user, nextDoc)
       IN  /\ r.code = 200 => nextDoc <= MaxDocs
           /\ docs' = r.db.docs
           /\ files' = r.files
           /\ nextDoc' = IF r.code = 200 THEN nextDoc + 1 ELSE nextDoc
    /\ UNCHANGED <<cands, ledger, nextCand, nextLedger, pc, norm>>

-----------------------------------------------------------------------------
(* StatementExtractor: the normalizer of the backend's response *)

\* str.lower() and str.upper() on the strings the model uses.
Lower(s) ==
    CASE s = "INCOME" -> "income"
      [] s = "EXPENSE" -> "expense"
      [] s = "Expense" -> "expense"
      [] s = "DEBIT" -> "debit"
      [] s = "TRANSFER" -> "transfer"
      [] OTHER -> s

Upper(s) ==
    CASE s = "income" -> "INCOME"
      [] s = "expense" -> "EXPENSE"
      [] s = "Expense" -> "EXPENSE"
      [] s = "debit" -> "DEBIT"
      [] s = "transfer" -> "TRANSFER"
      [] OTHER -> s

\* Fault: the amount keeps its sign.
AbsKeepsSign(n) == n

\* abs()
Abs(n) == IF n < 0 THEN 0 - n ELSE n

Missing == "<missing>"      \* the key is absent from the JSON object

\* A value of an entry's "date" key. A string is given by its layout (shape),
\* its three numbers a, b, c in the order they are written, the number of
\* digits w of its year, and whether white space surrounds it (pad):
\*   "empty"        ""                      "blank"        white space only
\*   "iso"          dddd-dd-dd  (a-b-c, any digits)
\*   "slash"        a/b/c                   "dash"         a-b-c  (year last)
\*   "Month d, Y"   a = month, b = day      "Mon d, Y"     the same, abbreviated
\*   "d Month Y"    a = day, b = month      "d Mon Y"      the same, abbreviated
\*   "other"        any other text (a tells two such texts apart)
\* and the values that are no string: "missing" (no such key), "null",
\* "number" (a non-zero JSON number).
DateText(shape, a, b, c, w, pad) ==
    [shape |-> shape, a |-> a, b |-> b, c |-> c, w |-> w, pad |-> pad]

EmptyDate == DateText("empty", 0, 0, 0, 0, FALSE)
NoDate == DateText("missing", 0, 0, 0, 0, FALSE)
NullDate == DateText("null", 0, 0, 0, 0, FALSE)

\* dt.strftime("%Y-%m-%d") for a year of four digits
Iso(y, m, d) == DateText("iso", y, m, d, 4, FALSE)

\* `if date_str` / `not date_str`: Python truthiness of a date value
DatePresent(d) == d.shape \notin {"empty", "null", "missing"}

LeapYear(y) == (y % 4 = 0 /\ y % 100 # 0) \/ y % 400 = 0

DaysIn(m, y) ==
    IF m = 2 THEN (IF LeapYear(y) THEN 29 ELSE 28)
    ELSE IF m \in {4, 6, 9, 11} THEN 30 ELSE 31

\* datetime(y, m, d) exists; strptime raises ValueError otherwise.
ValidDate(y, m, d) == y \in 1..9999 /\ m \in 1..12 /\ d \in 1..DaysIn(m, y)

\* %y: a year of two digits, 00-68 in 2000-2068 and 69-99 in 1969-1999
Pivot(yy) == IF yy < 69 THEN 2000 + yy ELSE 1900 + yy

\* The `formats` list, in its order.
Formats ==
    << [shape |-> "slash", w |-> 4, first |-> "month"],         \* %m/%d/%Y
       [shape |-> "slash", w |-> 2, first |-> "month"],         \* %m/%d/%y
       [shape |-> "slash", w |-> 4, first |-> "day"],           \* %d/%m/%Y
       [shape |-> "slash", w |-> 2, first |-> "day"],           \* %d/%m/%y
       [shape |-> "dash", w |-> 4, first |-> "month"],          \* %m-%d-%Y
       [shape |-> "dash", w |-> 2, first |-> "month"],          \* %m-%d-%y
       [shape |-> "Month d, Y", w |-> 4, first |-> "month"],    \* %B %d, %Y
       [shape |-> "Mon d, Y", w |-> 4, first |-> "month"],      \* %b %d, %Y
       [shape |-> "d Month Y", w |-> 4, first |-> "day"],       \* %d %B %Y
       [shape |-> "d Mon Y", w |-> 4, first |-> "day"] >>       \* %d %b %Y

\* datetime.strptime(date_str.strip(), fmt): the date read, or ok = FALSE
\* for ValueError.
Strptime(d, fmt) ==
    LET y == IF fmt.w = 4 THEN d.c ELSE Pivot(d.c)
        m == IF fmt.first = "month" THEN d.a ELSE d.b
        day == IF fmt.first = "month" THEN d.b ELSE d.a
    IN  IF d.shape = fmt.shape /\ d.w = fmt.w /\ ValidDate(y, m, day)
        THEN [ok |-> TRUE, y |-> y, m |-> m, d |-> day]
        ELSE [ok |-> FALSE, y |-> 0, m |-> 0, d |-> 0]

\* Fault: the date is written back day first, with slashes.
FormatDateDayFirst(dt) == DateText("slash", dt.d, dt.m, dt.y, 4, FALSE)

\* dt.strftime("%Y-%m-%d")
FormatDate(dt) == Iso(dt.y, dt.m, dt.d)

\* The loop over `formats` from the i-th on; no format fits: the original.
RECURSIVE TryFormats(_, _)
TryFormats(d, i) ==
    IF i > Len(Formats) THEN d
    ELSE LET dt == Strptime(d, Formats[i])
         IN  IF dt.ok THEN FormatDate(dt) ELSE TryFormats(d, i + 1)

\* _normalize_date, for a string or None
NormalizeDate(d) ==
    IF ~DatePresent(d) THEN EmptyDate
    ELSE IF d.shape = "iso" /\ ~d.pad THEN d
    ELSE TryFormats(d, 1)

NotText == "<number>"       \* a JSON value that is no string and not null

\* One entry of data["transactions"]: the body of the loop's try block, its
\* constructor arguments evaluated in their order (date, amount, type,
\* confidence). "skip" is the (ValueError, TypeError) handler, "raise" any
\* other exception (AttributeError: t.get on a value that is no object,
\* .lower() on a type that is no string), which leaves the loop.
ParseTransaction(t, idx) ==
    IF t.kind # "map" THEN [outcome |-> "raise"]
    ELSE
    LET dateIn == IF t.date.shape = "missing" THEN EmptyDate ELSE t.date
        typeIn == IF t.type = Missing THEN "expense" ELSE t.type
        amountIn == IF t.amount.tag = "missing" THEN 0 ELSE t.amount.v
    IN  IF dateIn.shape = "number" THEN [outcome |-> "skip"]
        ELSE IF t.amount.tag = "bad" THEN [outcome |-> "skip"]
        ELSE IF typeIn \in {NoneStr, NotText} THEN [outcome |-> "raise"]
        ELSE IF t.confidence = "null" THEN [outcome |-> "skip"]
        ELSE LET txn == [date |-> NormalizeDate(dateIn),
                         description |-> IF t.description = Missing
                                         THEN "Unknown" ELSE t.description,
                         amount |-> Abs(amountIn),
                         type |-> Lower(typeIn),
                         category |-> IF t.category = Missing
                                      THEN NoneStr ELSE t.category,
                         line_number |-> idx]
             IN  IF txn.amount > 0 /\ DatePresent(txn.date)
                 THEN [outcome |-> "accept", txn |-> txn]
                 ELSE [outcome |-> "skip"]

\* Fault: the accepted entries are numbered by their rank among the
\* accepted ones, not by their place in the list.
RECURSIVE ParseTransactionsRanked(_, _)
ParseTransactionsRanked(raw, idx) ==
    IF idx > Len(raw) THEN <<>>
    ELSE LET r == ParseTransaction(raw[idx], idx)
             rest == ParseTransactionsRanked(raw, idx + 1)
         IN  IF r.outcome = "accept"
             THEN <<r.txn>> \o rest
             ELSE [k \in DOMAIN rest |-> [rest[k] EXCEPT !.line_number = @ - 1]]

\* The loop over enumerate(data.get("transactions", [])) from entry idx on.
RECURSIVE ParseTransactions(_, _)
ParseTransactions(raw, idx) ==
    IF idx > Len(raw) THEN <<>>
    ELSE LET r == ParseTransaction(raw[idx], idx)
         IN  IF r.outcome = "accept"
             THEN <<r.txn>> \o ParseTransactions(raw, idx + 1)
             ELSE ParseTransactions(raw, idx + 1)

Failure(error) == [success |-> FALSE, transactions |-> <<>>, error |-> error]

\* Fault: a result without transactions is a failure.
ParseLLMResponseEmptyFails(response) ==
    IF response.kind = "nojson"
    THEN [outcome |-> "return", result |-> Failure("No JSON found in LLM response")]
    ELSE IF response.kind = "badjson"
    THEN [outcome |-> "return", result |-> Failure("Failed to parse JSON")]
    ELSE IF response.statement_info = "null"
    THEN [outcome |-> "raise"]
    ELSE IF \E i \in 1..Len(response.transactions) :
               ParseTransaction(response.transactions[i], i).outcome = "raise"
    THEN [outcome |-> "raise"]
    ELSE IF ParseTransactions(response.transactions, 1) = <<>>
    THEN [outcome |-> "return", result |-> Failure("No transactions found")]
    ELSE [outcome |-> "return",
          result |-> [success |-> TRUE,
                      transactions |-> ParseTransactions(response.transactions, 1),
                      error |-> NoneStr]]

\* _parse_llm_response from json.loads on; an exception that is not a
\* JSONDecodeError leaves it (outcome "raise"): info_data.get on a
\* statement_info that is null, or an entry that raises.
ParseLLMResponse(response) ==
    IF response.kind = "nojson"
    THEN [outcome |-> "return", result |-> Failure("No JSON found in LLM response")]
    ELSE IF response.kind = "badjson"
    THEN [outcome |-> "return", result |-> Failure("Failed to parse JSON")]
    ELSE IF response.statement_info = "null"
    THEN [outcome |-> "raise"]
    ELSE IF \E i \in 1..Len(response.transactions) :
               ParseTransaction(response.transactions[i], i).outcome = "raise"
    THEN [outcome |-> "raise"]
    ELSE [outcome |-> "return",
          result |-> [success |-> TRUE,
                      transactions |-> ParseTransactions(response.transactions, 1),
                      error |-> NoneStr]]

\* StatementExtractor.extract: `stage` is what the stages before the
\* normalizer did ("ok", "notext": no text in the PDF, "error": the PDF
\* parser or the backend call raised). Every exception becomes a failed result.
Extract(stage, response) ==
    IF stage = "notext" THEN Failure("Could not extract text from PDF")
    ELSE IF stage = "error" THEN Failure("Extraction failed")
    ELSE LET p == ParseLLMResponse(response)
         IN  IF p.outcome = "raise" THEN Failure("Extraction failed")
             ELSE p.result

Stages == {"ok", "notext", "error"}

\* The backend responses the model feeds to the normalizer.
Num(v) == [tag |-> "num", v |-> v]
Entry(date, description, amount, type, category) ==
    [kind |-> "map", date |-> date, description |-> description, amount |-> amount,
     type |-> type, category |-> category, confidence |-> "num"]
RawGroceries ==
    Entry(Iso(2024, 1, 5), "WALMART", Num(0 - 10), "expense", "Groceries")
RawSalary ==
    Entry(DateText("slash", 1, 6, 2024, 4, FALSE), "PAYROLL", Num(40), "INCOME", Missing)
RawZero ==
    Entry(Iso(2024, 1, 5), "VOID", Num(0), "expense", "Other")
RawNullType ==
    Entry(Iso(2024, 1, 5), "ATM", Num(10), NoneStr, "Other")

JsonWith(info, txns) == [kind |-> "json", statement_info |-> info, transactions |-> txns]
Json(txns) == JsonWith("map", txns)
NoJson == [kind |-> "nojson", statement_info |-> "missing", transactions |-> <<>>]
BadJson == [kind |-> "badjson", statement_info |-> "missing", transactions |-> <<>>]
Responses ==
    { NoJson, BadJson,
      Json(<<>>),
      Json(<<RawGroceries>>),
      Json(<<RawGroceries, RawZero, RawSalary>>),
      Json(<<RawGroceries, RawNullType>>) }

-----------------------------------------------------------------------------
(* Backend selection (providers/registry.py) *)

ProviderKeys == {"ollama", "openai", "mock"}

\* create_llm_provider: the provider's name; an unknown key falls back to Mock.
CreateLLMProvider(key) ==
    CASE key = "ollama" -> "Ollama"
      [] key = "openai" -> "OpenAI"
      [] OTHER -> "Mock"

\* is_available of a created provider, given what the environment answers
\* for the two remote variants; the mock is always available.
IsAvailable(name, avail) == IF name = "Mock" THEN TRUE ELSE avail[name]

\* Fault: the cloud API is tried before local inference.
GetBestCloudFirst(configured, avail) ==
    IF configured # "" /\ IsAvailable(CreateLLMProvider(configured), avail)
    THEN CreateLLMProvider(configured)
    ELSE IF avail["OpenAI"] THEN "OpenAI"
    ELSE IF avail["Ollama"] THEN "Ollama"
    ELSE "Mock"

\* get_best_available_provider
GetBestAvailableProvider(configured, avail) ==
    IF configured # "" /\ IsAvailable(CreateLLMProvider(configured), avail)
    THEN CreateLLMProvider(configured)
    ELSE IF avail["Ollama"] THEN "Ollama"
    ELSE IF avail["OpenAI"] THEN "OpenAI"
    ELSE "Mock"

Availabilities == [{"Ollama", "OpenAI"} -> BOOLEAN]
Configured == {"", "openai"}         \* LLM_PROVIDER
Overrides == {NoneStr, "openai", "mock", "bogus"}     \* llm_provider

-----------------------------------------------------------------------------
(* process_document *)

DocIds == 1..MaxDocs
CandIds == 1..MaxCands

\* UPDATE bank_documents SET status = 'EXTRACTED', ... WHERE id = :id
DocExtracted(work, d, result) ==
    [work EXCEPT !.docs = [@ EXCEPT ![d] =
        [@ EXCEPT !.status = "EXTRACTED",
                  !.transactionCount = Len(result.transactions)]]]

\* The row INSERTed into pending_transactions for one accepted entry.
PendingRow(d, txn) ==
    [documentId |-> d, date |-> txn.date, description |-> txn.description,
     amount |-> txn.amount, type |-> Upper(txn.type), category |-> txn.category,
     userCategory |-> NoneStr, userNotes |-> NoneStr, status |-> "PENDING",
     duplicateOfId |-> NoId, importedTransactionId |-> NoId,
     lineNumber |-> txn.line_number]

\* Fault: the loop leaves the last entry out.
InsertPendingButLast(work, d, txns, k, firstId) ==
    [work EXCEPT !.cands =
        @ @@ [c \in firstId..(firstId + k - 2) |-> PendingRow(d, txns[c - firstId + 1])]]

\* The first k INSERTs of the loop over extraction_result["transactions"];
\* the i-th row gets the fresh id firstId + i - 1.
InsertPending(work, d, txns, k, firstId) ==
    [work EXCEPT !.cands =
        @ @@ [c \in firstId..(firstId + k - 1) |-> PendingRow(d, txns[c - firstId + 1])]]

\* UPDATE bank_documents SET status = 'FAILED', ... of the else branch
DocFailed(work, d, error) ==
    [work EXCEPT !.docs = [@ EXCEPT ![d] =
        [@ EXCEPT !.status = "FAILED", !.processingError = error]]]

\* Fault: the except handler re-raises without writing FAILED.
ExceptHandlerNoWrite(db, d, error) == db

\* The except handler: UPDATE bank_documents SET status = 'FAILED', ...; commit
ExceptHandler(db, d, error) ==
    [db EXCEPT !.docs = [@ EXCEPT ![d] =
        [@ EXCEPT !.status = "FAILED", !.processingError = error]]]

\* The session that stores the results. failAt = 0: every statement succeeds;
\* failAt = i: the i-th INSERT raises (i = n + 1: the commit raises), after the
\* document UPDATE and i - 1 INSERTs, and the session is left without commit.
StoreResults(db, d, result, failAt, firstId) ==
    IF result.success
    THEN LET updated == DocExtracted(db, d, result)
         IN  IF failAt = 0
             THEN [raised |-> FALSE,
                   db |-> Commit(db, InsertPending(updated, d, result.transactions,
                                                   Len(result.transactions), firstId))]
             ELSE [raised |-> TRUE,
                   db |-> Rollback(db, InsertPending(updated, d, result.transactions,
                                                     failAt - 1, firstId))]
    ELSE [raised |-> FALSE, db |-> Commit(db, DocFailed(db, d, result.error))]

\* Fault: the guard also lets an EXTRACTED document in.
ProcessableAlsoExtracted(status) == status \in {"PENDING", "FAILED", "EXTRACTED"}

\* Fault: a FAILED document cannot be processed again.
ProcessableOnlyPending(status) == status = "PENDING"

\* The guard of process_document: the statuses from which processing starts.
Processable(status) == status \in {"PENDING", "FAILED"}

\* Fault: the guard passes but PROCESSING is never written.
ProcessClaimNoWrite(db, d) ==
    IF d \notin DOMAIN db.docs THEN Outcome(db, 404)
    ELSE IF ~Processable(db.docs[d].status) THEN Outcome(db, 400)
    ELSE Outcome(db, 0)

\* process_document up to the commit of PROCESSING.
ProcessClaim(db, d) ==
    IF d \notin DOMAIN db.docs THEN Outcome(db, 404)
    ELSE IF ~Processable(db.docs[d].status) THEN Outcome(db, 400)
    ELSE Outcome([db EXCEPT !.docs = [@ EXCEPT ![d].status = "PROCESSING"]], 0)

\* The rest of process_document, the try block and its except handler, in
\* the environment env: fileOk: the stored binary can be read; avail,
\* configured: the backends' answers and LLM_PROVIDER; stage, response: what
\* the extractor's stages do; failAt: the INSERT that raises, if any.
ProcessRun(db, d, override, env, firstId) ==
    LET named == override \notin {NoneStr, ""}
        provider == IF named THEN CreateLLMProvider(override)
                    ELSE GetBestAvailableProvider(env.configured, env.avail)
        unavailable == named /\ ~IsAvailable(provider, env.avail)
        result == Extract(env.stage, env.response)
        stored == StoreResults(db, d, result, env.failAt, firstId)
    IN  IF ~env.fileOk \/ d \notin files
        THEN [db |-> ExceptHandler(db, d, "No such file"), code |-> 500,
              success |-> FALSE, provider |-> NoneStr, result |-> Failure(NoneStr)]
        ELSE IF unavailable
        THEN [db |-> ExceptHandler(db, d, "Provider is not available"), code |-> 500,
              success |-> FALSE, provider |-> NoneStr, result |-> Failure(NoneStr)]
        ELSE IF stored.raised
        THEN [db |-> ExceptHandler(stored.db, d, "Database error"), code |-> 500,
              success |-> FALSE, provider |-> provider, result |-> result]
        ELSE [db |-> stored.db, code |-> 200,
              success |-> result.success, provider |-> provider, result |-> result]

\* The environments the specification runs process_document in.
NoBackend == [b \in {"Ollama", "OpenAI"} |-> FALSE]
Env(response, failAt) ==
    [fileOk |-> TRUE, avail |-> NoBackend, configured |-> "", stage |-> "ok",
     response |-> response, failAt |-> failAt]
ProcessEnvs ==
    { Env(Json(<<RawGroceries, RawZero, RawSalary>>), 0),
      Env(Json(<<RawGroceries, RawZero, RawSalary>>), 2),
      Env(Json(<<RawGroceries>>), 0),
      Env(Json(<<>>), 0),
      Env(NoJson, 0) }

ProcessBegin(d, override) ==
    /\ pc = Idle
    /\ LET r == ProcessClaim(DB, d)
       IN  /\ docs' = r.db.docs
           /\ pc' = IF r.code = 0 THEN [doc |-> d, llm_provider |-> override] ELSE pc
    /\ UNCHANGED <<cands, ledger, files, nextDoc, nextCand, nextLedger, norm>>

ProcessEnd(env) ==
    /\ pc # Idle
    /\ LET r == ProcessRun(DB, pc.doc, pc.llm_provider, env, nextCand)
       IN  /\ env.failAt <= Len(r.result.transactions) + 1
           /\ nextCand + Len(r.result.transactions) - 1 <= MaxCands
           /\ docs' = r.db.docs
           /\ cands' = r.db.cands
           /\ ledger' = r.db.ledger
           /\ nextCand' = IF r.code = 200 /\ r.success
                          THEN nextCand + Len(r.result.transactions) ELSE nextCand
    /\ pc' = Idle
    /\ UNCHANGED <<files, nextDoc, nextLedger, norm>>

-----------------------------------------------------------------------------
-----------------------------------------------------------------------------
(* Review operations (routes/transactions.py) *)

\* An Optional request field: {} when it is None, {v} when it is supplied.
None == {}
Some(v) == {v}
The(opt) == CHOOSE v \in opt : TRUE

\* Fault: the supplied category overwrites the backend's category.
UpdateTransactionOverwritesCategory(db, c, update) ==
    IF c \notin DOMAIN db.cands THEN Outcome(db, 404)
    ELSE IF db.cands[c].status = "IMPORTED" THEN Outcome(db, 400)
    ELSE LET row == db.cands[c]
             new == [row EXCEPT
                 !.category = IF update.category # None
                              THEN The(update.category) ELSE @,
                 !.description = IF update.description # None
                                 THEN The(update.description) ELSE @,
                 !.amount = IF update.amount # None THEN The(update.amount) ELSE @,
                 !.type = IF update.type # None THEN Upper(The(update.type)) ELSE @,
                 !.userNotes = IF update.notes # None THEN The(update.notes) ELSE @]
         IN  Outcome([db EXCEPT !.cands = [@ EXCEPT ![c] = new]], 200)

\* update_transaction
UpdateTransaction(db, c, update) ==
    IF c \notin DOMAIN db.cands THEN Outcome(db, 404)
    ELSE IF db.cands[c].status = "IMPORTED" THEN Outcome(db, 400)
    ELSE LET row == db.cands[c]
             new == [row EXCEPT
                 !.userCategory = IF update.category # None
                                  THEN The(update.category) ELSE @,
                 !.description = IF update.description # None
                                 THEN The(update.description) ELSE @,
                 !.amount = IF update.amount # None THEN The(update.amount) ELSE @,
                 !.type = IF update.type # None THEN Upper(The(update.type)) ELSE @,
                 !.userNotes = IF update.notes # None THEN The(update.notes) ELSE @]
         IN  Outcome([db EXCEPT !.cands = [@ EXCEPT ![c] = new]], 200)

\* Fault: the UPDATE has no status condition.
SetStatusAny(db, ids, from, to) ==
    [db EXCEPT !.cands =
        [c \in DOMAIN @ |-> IF c \in ids THEN [@[c] EXCEPT !.status = to] ELSE @[c]]]

\* UPDATE pending_transactions SET status = :to
\*   WHERE id = ANY(:ids) AND status IN :from
SetStatusWhere(db, ids, from, to) ==
    [db EXCEPT !.cands =
        [c \in DOMAIN @ |-> IF c \in ids /\ @[c].status \in from
                            THEN [@[c] EXCEPT !.status = to] ELSE @[c]]]

\* The rows an UPDATE ... WHERE id = ANY(:ids) AND status IN :from matches.
Matched(db, ids, from) == {c \in DOMAIN db.cands \cap ids : db.cands[c].status \in from}

\* Fault: approve also takes a REJECTED row.
ApproveFromAlsoRejected == {"PENDING", "REJECTED"}

\* approve_transaction: the statuses its UPDATE matches
ApproveFrom == {"PENDING"}
ApproveTransaction(db, c) ==
    IF Matched(db, {c}, ApproveFrom) = {} THEN Outcome(db, 400)
    ELSE Outcome(SetStatusWhere(db, {c}, ApproveFrom, "APPROVED"), 200)

\* Fault: reject also takes a DUPLICATE row.
RejectFromAlsoDuplicate == {"PENDING", "APPROVED", "DUPLICATE"}

\* reject_transaction: the statuses its UPDATE matches
RejectFrom == {"PENDING", "APPROVED"}
RejectTransaction(db, c) ==
    IF Matched(db, {c}, RejectFrom) = {} THEN Outcome(db, 400)
    ELSE Outcome(SetStatusWhere(db, {c}, RejectFrom, "REJECTED"), 200)

\* Fault: the DELETE has no status condition.
DeleteAny(db, ids) ==
    [db EXCEPT !.cands = Restrict(@, DOMAIN @ \ ids)]

\* DELETE FROM pending_transactions WHERE id = ANY(:ids) AND status != 'IMPORTED'
DeleteWhere(db, ids) ==
    [db EXCEPT !.cands =
        Restrict(@, {c \in DOMAIN @ : ~(c \in ids /\ @[c].status # "IMPORTED")})]

\* bulk_action
BulkAction(db, ids, action) ==
    IF ids = {} THEN Outcome(db, 400)
    ELSE IF action \notin {"approve", "reject", "delete"} THEN Outcome(db, 400)
    ELSE IF action = "delete" THEN Outcome(DeleteWhere(db, ids), 200)
    ELSE Outcome(SetStatusWhere(db, ids, {"PENDING", "APPROVED"},
                                IF action = "approve" THEN "APPROVED" ELSE "REJECTED"),
                 200)

-----------------------------------------------------------------------------
(* import_transactions *)

\* Fault: the SELECT also takes the PENDING rows.
ApprovedOrPending(db, d) ==
    {c \in DOMAIN db.cands : /\ db.cands[c].documentId = d
                             /\ db.cands[c].status \in {"APPROVED", "PENDING"}}

\* Fault: the SELECT does not filter by document.
ApprovedAnywhere(db, d) ==
    {c \in DOMAIN db.cands : db.cands[c].status = "APPROVED"}

\* SELECT ... FROM pending_transactions
\*   WHERE "documentId" = :document_id AND status = 'APPROVED'
Approved(db, d) ==
    {c \in DOMAIN db.cands : db.cands[c].documentId = d /\ db.cands[c].status = "APPROVED"}

\* The orders in which a SELECT without ORDER BY may return the rows S.
Orders(S) == {o \in [1..Cardinality(S) -> S] : \A i, j \in DOMAIN o : o[i] = o[j] => i = j}

\* Python truthiness of a nullable text value.
Truthy(s) == s # NoneStr /\ s # ""

\* final_category = p[6] if p[6] else p[5] or "Other"
FinalCategory(row) ==
    IF Truthy(row.userCategory) THEN row.userCategory
    ELSE IF Truthy(row.category) THEN row.category
    ELSE "Other"

\* final_type = "expense" if p[4] == "EXPENSE" else "income"
FinalType(row) == IF row.type = "EXPENSE" THEN "expense" ELSE "income"

\* The row INSERTed into transactions for the candidate row p.
LedgerRow(newId, p, user) ==
    [id |-> newId, description |-> p.description, amount |-> p.amount,
     type |-> FinalType(p), category |-> FinalCategory(p), date |-> p.date,
     userId |-> user]

\* Fault: the INSERT stores nothing.
InsertLedgerNothing(work, newId, p, user) == work

\* INSERT INTO transactions (...) VALUES (...) for the candidate row p
InsertLedger(work, newId, p, user) ==
    [work EXCEPT !.ledger = @ \cup {LedgerRow(newId, p, user)}]

\* Fault: the UPDATE records the link but leaves the status as it is.
MarkImportedKeepsStatus(work, c, newId) ==
    [work EXCEPT !.cands =
        [x \in DOMAIN @ |-> IF x = c THEN [@[x] EXCEPT !.importedTransactionId = newId]
                            ELSE @[x]]]

\* UPDATE pending_transactions SET status = 'IMPORTED',
\*   "importedTransactionId" = :new_id WHERE id = :pending_id
MarkImported(work, c, newId) ==
    [work EXCEPT !.cands =
        [x \in DOMAIN @ |-> IF x = c THEN [@[x] EXCEPT !.status = "IMPORTED",
                                                     !.importedTransactionId = newId]
                            ELSE @[x]]]

\* The first j statements of the loop over `pending` (the rows `read` at the
\* start, in the order `order`): statement 2k - 1 is the INSERT and statement
\* 2k the UPDATE of the k-th pass, whose new row gets the id firstId + k - 1.
RECURSIVE ImportLoop(_, _, _, _, _, _)
ImportLoop(work, read, order, j, firstId, user) ==
    IF j = 0 THEN work
    ELSE LET before == ImportLoop(work, read, order, j - 1, firstId, user)
             k == (j + 1) \div 2
         IN  IF j % 2 = 1
             THEN InsertLedger(before, firstId + k - 1, read[order[k]], user)
             ELSE MarkImported(before, order[k], firstId + k - 1)

\* UPDATE bank_documents SET status = 'IMPORTED' WHERE id = :document_id
DocImported(work, d) == [work EXCEPT !.docs = [@ EXCEPT ![d].status = "IMPORTED"]]

\* Fault: the check for an empty list of APPROVED rows is missing.
ImportTransactionsUnchecked(db, d, order, failAt, firstId) ==
    IF d \notin DOMAIN db.docs THEN [db |-> db, code |-> 404, transaction_ids |-> <<>>]
    ELSE [db |-> Commit(db, DocImported(
                    ImportLoop(db, db.cands, order, 2 * Len(order), firstId,
                               db.docs[d].userId), d)),
          code |-> 200,
          transaction_ids |-> [i \in 1..Len(order) |-> firstId + i - 1]]

\* import_transactions, with `order` the order in which the APPROVED rows were
\* read. failAt = 0: every statement succeeds and the session commits;
\* failAt = j: the j-th statement raises after j - 1 statements (j = 2n + 1:
\* the document UPDATE or the commit raises) and the exception leaves the session.
ImportTransactions(db, d, order, failAt, firstId) ==
    IF d \notin DOMAIN db.docs THEN [db |-> db, code |-> 404, transaction_ids |-> <<>>]
    ELSE IF Approved(db, d) = {}
    THEN [db |-> db, code |-> 400, transaction_ids |-> <<>>]
    ELSE LET n == Len(order)
             user == db.docs[d].userId
         IN  IF failAt = 0
             THEN [db |-> Commit(db, DocImported(
                             ImportLoop(db, db.cands, order, 2 * n, firstId, user), d)),
                   code |-> 200,
                   transaction_ids |-> [i \in 1..n |-> firstId + i - 1]]
             ELSE [db |-> Rollback(db, ImportLoop(db, db.cands, order, failAt - 1,
                                                  firstId, user)),
                   code |-> 500, transaction_ids |-> <<>>]

-----------------------------------------------------------------------------
(* check_duplicates *)

\* SELECT ... FROM pending_transactions
\*   WHERE "documentId" = :document_id AND status = 'PENDING'
PendingOf(db, d) ==
    {c \in DOMAIN db.cands : db.cands[c].documentId = d /\ db.cands[c].status = "PENDING"}

\* Fault: a row exactly 0.01 away matches too.
MatchesAtOneCent(db, user, p) ==
    {t \in db.ledger : /\ t.userId = user
                       /\ t.date = p.date
                       /\ Abs(t.amount - p.amount) <= DupTolerance}

\* SELECT ... FROM transactions WHERE "userId" = :user_id AND date = :date
\*   AND ABS(amount - :amount) < 0.01
Matches(db, user, p) ==
    {t \in db.ledger : /\ t.userId = user
                       /\ t.date = p.date
                       /\ Abs(t.amount - p.amount) < DupTolerance}

\* The candidates check_duplicates reports: the PENDING ones with a match.
Duplicates(db, d, user) == {c \in PendingOf(db, d) : Matches(db, user, db.cands[c]) # {}}

\* The ways to take potential_duplicates[0] for each candidate: the SELECT
\* has no ORDER BY, so any matching row may come first.
FirstMatches(db, d, user) ==
    [Duplicates(db, d, user) -> {t.id : t \in db.ledger}]

\* Fault: the UPDATE sets the status and records no link.
MarkDuplicatesNoLink(db, first) ==
    [db EXCEPT !.cands =
        [c \in DOMAIN @ |-> IF c \in DOMAIN first
                            THEN [@[c] EXCEPT !.status = "DUPLICATE"]
                            ELSE @[c]]]

\* UPDATE pending_transactions SET status = 'DUPLICATE', "duplicateOfId" = ...
\*   WHERE id = :pending_id, for every duplicate
MarkDuplicates(db, first) ==
    [db EXCEPT !.cands =
        [c \in DOMAIN @ |-> IF c \in DOMAIN first
                            THEN [@[c] EXCEPT !.status = "DUPLICATE",
                                              !.duplicateOfId = first[c]]
                            ELSE @[c]]]

\* check_duplicates; first[c] is the id of the row that came first for c.
CheckDuplicates(db, d, user, first) ==
    [db |-> MarkDuplicates(db, first), code |-> 200,
     total_checked |-> Cardinality(PendingOf(db, d)),
     duplicates_found |-> Cardinality(DOMAIN first)]

-----------------------------------------------------------------------------
(* The handlers as actions *)

Install(db) ==
    /\ docs' = db.docs
    /\ cands' = db.cands
    /\ ledger' = db.ledger

UpdateRequests ==
    { [category |-> Some("Dining"), description |-> Some("edited"), amount |-> Some(0),
       type |-> Some("income"), notes |-> Some("note")],
      [category |-> None, description |-> None, amount |-> None,
       type |-> None, notes |-> None] }

BulkRequests ==
    { <<{1, 2}, "approve">>, <<{1, 2}, "reject">>, <<{1, 2}, "delete">>,
      <<{2, 3}, "delete">>, <<{1}, "archive">>, <<{}, "approve">> }

Update(c, update) ==
    /\ pc = Idle
    /\ Install(UpdateTransaction(DB, c, update).db)
    /\ UNCHANGED <<files, nextDoc, nextCand, nextLedger, pc, norm>>

Approve(c) ==
    /\ pc = Idle
    /\ Install(ApproveTransaction(DB, c).db)
    /\ UNCHANGED <<files, nextDoc, nextCand, nextLedger, pc, norm>>

Reject(c) ==
    /\ pc = Idle
    /\ Install(RejectTransaction(DB, c).db)
    /\ UNCHANGED <<files, nextDoc, nextCand, nextLedger, pc, norm>>

Bulk(ids, action) ==
    /\ pc = Idle
    /\ Install(BulkAction(DB, ids, action).db)
    /\ UNCHANGED <<files, nextDoc, nextCand, nextLedger, pc, norm>>

Import(d, order, failAt) ==
    /\ pc = Idle
    /\ failAt <= 2 * Len(order) + 1
    /\ nextLedger + Len(order) - 1 <= MaxLedger
    /\ LET r == ImportTransactions(DB, d, order, failAt, nextLedger)
       IN  /\ Install(r.db)
           /\ nextLedger' = IF r.code = 200 THEN nextLedger + Len(order) ELSE nextLedger
    /\ UNCHANGED <<files, nextDoc, nextCand, pc, norm>>

CheckDups(d, user, first) ==
    /\ pc = Idle
    /\ \A c \in DOMAIN first : first[c] \in {t.id : t \in Matches(DB, user, cands[c])}
    /\ Install(CheckDuplicates(DB, d, user, first).db)
    /\ UNCHANGED <<files, nextDoc, nextCand, nextLedger, pc, norm>>

-----------------------------------------------------------------------------
\* Ledger rows of the main application that exist before any import.
PreLedger ==
    { [id |-> 0 - 1, description |-> "WALMART 1234", amount |-> 11, type |-> "expense",
       category |-> "Groceries", date |-> Iso(2024, 1, 5), userId |-> "u1"],
      [id |-> 0 - 2, description |-> "REFUND", amount |-> 12, type |-> "income",
       category |-> "Other", date |-> Iso(2024, 1, 5), userId |-> "u2"] }

UploadRequests ==
    { <<"APPLICATION/PDF", MaxUploadBytes>>,
      <<"application/pdf", MaxUploadBytes + 1>>, <<"image/png", 1>>, <<NoneStr, 1>> }

Init ==
    /\ docs = <<>>
    /\ cands = <<>>
    /\ ledger = PreLedger
    /\ files = {}
    /\ nextDoc = 1
    /\ nextCand = 1
    /\ nextLedger = 1
    /\ pc = Idle
    /\ norm = NormIdle

Next ==
    \/ \E u \in UploadRequests : UploadDocument(u[1], u[2], "u1")
    \/ \E d \in DocIds, override \in {NoneStr, "openai"} : ProcessBegin(d, override)
    \/ \E env \in ProcessEnvs : ProcessEnd(env)
    \/ \E c \in CandIds, update \in UpdateRequests : Update(c, update)
    \/ \E c \in CandIds : Approve(c)
    \/ \E c \in CandIds : Reject(c)
    \/ \E b \in BulkRequests : Bulk(b[1], b[2])
    \/ \E d \in DocIds : \E order \in Orders(Approved(DB, d)), failAt \in 0..(2 * MaxCands + 1) :
          Import(d, order, failAt)
    \/ \E d \in DocIds, user \in Users : \E first \in FirstMatches(DB, d, user) :
          CheckDups(d, user, first)

Spec == Init /\ [][Next]_vars

-----------------------------------------------------------------------------
(* Properties *)

DocsOf(db) == DOMAIN db.docs
CandsOfDoc(cs, d) == {c \in DOMAIN cs : cs[c].documentId = d}

\* The environments process_document is examined in: every stage outcome,
\* every response, every failing INSERT, with and without a reachable backend.
AllBackends == [b \in {"Ollama", "OpenAI"} |-> TRUE]
ProcessInputs ==
    [fileOk : BOOLEAN, avail : {NoBackend, AllBackends}, configured : {""},
     stage : Stages, response : Responses, failAt : 0..4]

AllowedDocTransitions ==
    { <<"PENDING", "PROCESSING">>, <<"PROCESSING", "EXTRACTED">>,
      <<"PROCESSING", "FAILED">>, <<"FAILED", "PROCESSING">>,
      <<"EXTRACTED", "IMPORTED">> }

\* C1: with upload, process and import as non-overlapping calls, every change
\* of a document's status in a step is PENDING->PROCESSING,
\* PROCESSING->EXTRACTED, PROCESSING->FAILED, FAILED->PROCESSING or
\* EXTRACTED->IMPORTED (a repeat import leaves IMPORTED as it is), a document
\* is never removed, and a new document starts PENDING.
C1_DocStatusTransitions ==
    [][ /\ \A d \in DOMAIN docs :
             /\ d \in DOMAIN docs'
             /\ docs'[d].status # docs[d].status
                  => <<docs[d].status, docs'[d].status>> \in AllowedDocTransitions
        /\ \A d \in DOMAIN docs' \ DOMAIN docs : docs'[d].status = "PENDING" ]_vars

\* A document that failed, was processed again and was then imported: it has
\* gone through every allowed transition.
C1_Witness ==
    \E d \in DOMAIN docs :
        docs[d].status = "IMPORTED" /\ docs[d].processingError # NoneStr

\* C2: process on a document that is PROCESSING, EXTRACTED or IMPORTED answers
\* 400 and process on a missing id answers 404; either way the committed
\* state (documents, candidates, ledger) is left as it was.
C2_ProcessRejected ==
    \A d \in 1..nextDoc :
        LET r == ProcessClaim(DB, d)
        IN  /\ d \notin DOMAIN docs => r.code = 404 /\ r.db = DB
            /\ (d \in DOMAIN docs
                  /\ docs[d].status \in {"PROCESSING", "EXTRACTED", "IMPORTED"})
                 => r.code = 400 /\ r.db = DB

\* One document is in flight, another is EXTRACTED with candidates stored.
C2_Witness ==
    \E d1, d2 \in DOMAIN docs :
        /\ docs[d1].status = "PROCESSING"
        /\ docs[d2].status = "EXTRACTED"
        /\ CandsOfDoc(cands, d2) # {}

C4_ImportedOnlyFromApproved ==
    [][ \A c \in DOMAIN cands' :
            cands'[c].status = "IMPORTED"
              => /\ c \in DOMAIN cands
                 /\ cands[c].status \in {"APPROVED", "IMPORTED"} ]_vars

\* An import has left one candidate IMPORTED beside one it did not take.
C4_Witness ==
    \E c1, c2 \in DOMAIN cands :
        /\ cands[c1].status = "IMPORTED"
        /\ cands[c2].status \in {"PENDING", "REJECTED", "DUPLICATE"}
        /\ cands[c1].documentId = cands[c2].documentId

\* C5: an IMPORTED candidate is kept by every step, with every field as it was.
C5_ImportedImmutable ==
    [][ \A c \in DOMAIN cands :
            cands[c].status = "IMPORTED"
              => c \in DOMAIN cands' /\ cands'[c] = cands[c] ]_vars

\* An IMPORTED candidate and, beside it, a candidate that check-duplicates
\* later matched against the ledger row of that import.
C5_Witness ==
    \E c1, c2 \in DOMAIN cands :
        /\ cands[c1].status = "IMPORTED"
        /\ cands[c2].status = "DUPLICATE"
        /\ cands[c2].duplicateOfId = cands[c1].importedTransactionId

\* The APPROVED candidates of document d in the committed state.
ApprovedNow(d) ==
    {c \in DOMAIN cands : cands[c].documentId = d /\ cands[c].status = "APPROVED"}

\* The ledger rows that import has inserted (its ids are the positive ones).
ImportedRows(l) == {t \in l : t.id >= 1}

\* C6: in every step, a candidate whose import link is set keeps it; each
\* ledger row the step inserts is linked by exactly one candidate, whose link
\* was not set before the step; and no ledger row is removed. So, over any
\* sequence of calls, a candidate gets at most one ledger row.
C6_OneLedgerRowPerCandidate ==
    [][ /\ \A c \in DOMAIN cands :
             cands[c].importedTransactionId # NoId
               => /\ c \in DOMAIN cands'
                  /\ cands'[c].importedTransactionId = cands[c].importedTransactionId
        /\ ledger \subseteq ledger'
        /\ \A t \in ledger' \ ledger :
             /\ \A t2 \in ledger' : t2.id = t.id => t2 = t
             /\ Cardinality({c \in DOMAIN cands' :
                               cands'[c].importedTransactionId = t.id}) = 1
             /\ \A c \in DOMAIN cands' :
                   cands'[c].importedTransactionId = t.id
                     => c \in DOMAIN cands /\ cands[c].importedTransactionId = NoId
        /\ \A c \in DOMAIN cands' :
             (c \in DOMAIN cands /\ cands'[c].importedTransactionId
                                      # cands[c].importedTransactionId)
               => \E t \in ledger' \ ledger : t.id = cands'[c].importedTransactionId
      ]_vars

\* A document that has been imported holds an IMPORTED candidate with its
\* link set and a candidate approved since: import can be called again.
C6_Witness ==
    \E c1, c2 \in DOMAIN cands :
        /\ cands[c1].documentId = cands[c2].documentId
        /\ docs[cands[c1].documentId].status = "IMPORTED"
        /\ cands[c1].status = "IMPORTED"
        /\ cands[c1].importedTransactionId # NoId
        /\ cands[c2].status = "APPROVED"

\* What a committed import of document d does to the committed state.
ImportEffect(d) ==
    LET A == ApprovedNow(d)
        new == ledger' \ ledger
    IN  /\ A # {}
        /\ ledger \subseteq ledger'
        /\ Cardinality(new) = Cardinality(A)
        /\ DOMAIN cands' = DOMAIN cands
        /\ \A c \in A :
              /\ cands'[c] = [cands[c] EXCEPT
                                 !.status = "IMPORTED",
                                 !.importedTransactionId =
                                     cands'[c].importedTransactionId]
              /\ \E t \in new : /\ t.id = cands'[c].importedTransactionId
                                /\ t.date = cands[c].date
                                /\ t.amount = cands[c].amount
                                /\ t.description = cands[c].description
                                /\ t.userId = docs[d].userId
        /\ \A c1, c2 \in A :
              c1 # c2 => cands'[c1].importedTransactionId
                           # cands'[c2].importedTransactionId
        /\ \A c \in DOMAIN cands \ A : cands'[c] = cands[c]
        /\ docs' = [docs EXCEPT ![d].status = "IMPORTED"]

\* C7: a step that inserts ledger rows is an import of one document d: it
\* inserts one row for each candidate of d that was APPROVED and no other,
\* makes exactly those candidates IMPORTED, each linked to its own new row,
\* sets d to IMPORTED and leaves every other candidate and document as it was.
C7_ImportFrame ==
    [][ ledger' # ledger => \E d \in DOMAIN docs : ImportEffect(d) ]_vars

\* One document is imported while the other still holds an APPROVED candidate.
C7_Witness ==
    \E c1, c2 \in DOMAIN cands :
        /\ cands[c1].documentId # cands[c2].documentId
        /\ cands[c1].status = "IMPORTED"
        /\ docs[cands[c1].documentId].status = "IMPORTED"
        /\ cands[c2].status = "APPROVED"
        /\ docs[cands[c2].documentId].status = "EXTRACTED"

\* C8: import on a document without APPROVED candidates answers 400 and
\* leaves the committed state as it was: no ledger row, no candidate change,
\* and the document's status is not set to IMPORTED.
C8_ImportNothingApproved ==
    \A d \in DOMAIN docs :
        ApprovedNow(d) = {} =>
            LET r == ImportTransactions(DB, d, <<>>, 0, nextLedger)
            IN  r.code = 400 /\ r.db = DB

\* An EXTRACTED document with candidates, none of them APPROVED.
C8_Witness ==
    \E d \in DOMAIN docs :
        /\ docs[d].status = "EXTRACTED"
        /\ CandsOfDoc(cands, d) # {}
        /\ ApprovedNow(d) = {}

\* C9: in every committed state the ledger rows inserted by import and the
\* IMPORTED candidates correspond one to one through the import link, and a
\* candidate that is not IMPORTED has no link; and an import that fails at
\* any statement, after any number of INSERTs and status flips, leaves the
\* committed state as it was (no ledger row, no flip, document not IMPORTED).
C9_LedgerMatchesImported ==
    /\ \A t \in ImportedRows(ledger) :
          Cardinality({c \in DOMAIN cands :
                         /\ cands[c].status = "IMPORTED"
                         /\ cands[c].importedTransactionId = t.id}) = 1
    /\ \A c \in DOMAIN cands :
          IF cands[c].status = "IMPORTED"
          THEN Cardinality({t \in ImportedRows(ledger) :
                              t.id = cands[c].importedTransactionId}) = 1
          ELSE cands[c].importedTransactionId = NoId
    /\ \A d \in DOMAIN docs :
          \A order \in Orders(ApprovedNow(d)) :
              \A failAt \in 1..(2 * Len(order) + 1) :
                  LET r == ImportTransactions(DB, d, order, failAt, nextLedger)
                  IN  ApprovedNow(d) # {} => r.code = 500 /\ r.db = DB

\* A document has one candidate that was imported, its ledger row in place,
\* and another that is APPROVED: a further import of it can fail midway.
C9_Witness ==
    \E d \in DOMAIN docs : \E c \in CandsOfDoc(cands, d) :
        /\ cands[c].status = "IMPORTED"
        /\ \E t \in ImportedRows(ledger) : t.id = cands[c].importedTransactionId
        /\ ApprovedNow(d) # {}

\* C10: approve answers 200 and sets APPROVED exactly when the candidate is
\* PENDING; reject answers 200 and sets REJECTED exactly when it is PENDING or
\* APPROVED; from every other status the call answers 400 and leaves the
\* committed state as it was. A successful call changes only that status.
C10_ApproveRejectGuards ==
    \A c \in DOMAIN cands :
        LET a == ApproveTransaction(DB, c)
            r == RejectTransaction(DB, c)
        IN  /\ IF cands[c].status = "PENDING"
               THEN /\ a.code = 200
                    /\ a.db = [DB EXCEPT !.cands = [@ EXCEPT ![c].status = "APPROVED"]]
               ELSE a.code = 400 /\ a.db = DB
            /\ IF cands[c].status \in {"PENDING", "APPROVED"}
               THEN /\ r.code = 200
                    /\ r.db = [DB EXCEPT !.cands = [@ EXCEPT ![c].status = "REJECTED"]]
               ELSE r.code = 400 /\ r.db = DB

\* One candidate has been rejected and another flagged as a duplicate.
C10_Witness ==
    \E c1, c2 \in DOMAIN cands :
        cands[c1].status = "REJECTED" /\ cands[c2].status = "DUPLICATE"

-----------------------------------------------------------------------------
(* Bulk review and update *)

\* approve_transaction, resp. reject_transaction, called once for every id
\* of ids, one call after the other.
RECURSIVE ApproveEach(_, _)
ApproveEach(db, ids) ==
    IF ids = {} THEN db
    ELSE LET c == CHOOSE x \in ids : TRUE
         IN  ApproveEach(ApproveTransaction(db, c).db, ids \ {c})

RECURSIVE RejectEach(_, _)
RejectEach(db, ids) ==
    IF ids = {} THEN db
    ELSE LET c == CHOOSE x \in ids : TRUE
         IN  RejectEach(RejectTransaction(db, c).db, ids \ {c})

\* The id lists a bulk request may carry: ids of stored candidates and one
\* id that names no candidate.
BulkIdSets == SUBSET (1..(MaxCands + 1))

\* C11: from every reachable state and for every set of ids, bulk approve
\* leaves every candidate in the status that approving each id on its own
\* leaves it in, bulk reject likewise for reject, and bulk delete removes
\* exactly the listed candidates that are not IMPORTED and leaves every other
\* candidate, the documents and the ledger as they were.
C11_BulkMatchesSingle ==
    \A ids \in BulkIdSets :
        LET a == BulkAction(DB, ids, "approve").db
            r == BulkAction(DB, ids, "reject").db
            x == BulkAction(DB, ids, "delete").db
            gone == {c \in DOMAIN cands \cap ids : cands[c].status # "IMPORTED"}
        IN  /\ DOMAIN a.cands = DOMAIN cands
            /\ \A c \in DOMAIN cands :
                   a.cands[c].status = ApproveEach(DB, ids).cands[c].status
            /\ DOMAIN r.cands = DOMAIN cands
            /\ \A c \in DOMAIN cands :
                   r.cands[c].status = RejectEach(DB, ids).cands[c].status
            /\ DOMAIN x.cands = DOMAIN cands \ gone
            /\ \A c \in DOMAIN x.cands : x.cands[c] = cands[c]
            /\ x.docs = docs /\ x.ledger = ledger

\* An IMPORTED candidate, which bulk delete must leave, next to a REJECTED
\* one, which bulk approve must leave as approve does.
C11_Witness ==
    \E c1, c2 \in DOMAIN cands :
        cands[c1].status = "IMPORTED" /\ cands[c2].status = "REJECTED"

\* The update requests: every field absent or supplied, the magnitude also
\* as zero and as a negative number.
AllUpdateRequests ==
    [category : {None, Some("Dining"), Some("")},
     description : {None, Some("edited")},
     amount : {None, Some(7), Some(0), Some(0 - 4)},
     type : {None, Some("income")},
     notes : {None, Some("note")}]

\* C12: from every reachable state, update of a stored candidate that is not
\* IMPORTED answers 200, sets each supplied field (user category,
\* description, magnitude, type, user notes) and leaves every field that was
\* not supplied, the status, date, backend category, duplicate link, import
\* link, document and position of the candidate, every other candidate, the
\* documents and the ledger as they were; update of an IMPORTED candidate
\* answers 400 and changes nothing.
C12_UpdateFrame ==
    \A c \in DOMAIN cands : \A u \in AllUpdateRequests :
        LET r == UpdateTransaction(DB, c, u)
            old == cands[c]
        IN  IF old.status = "IMPORTED"
            THEN r.code = 400 /\ r.db = DB
            ELSE LET new == r.db.cands[c]
                 IN  /\ r.code = 200
                     /\ r.db.docs = docs /\ r.db.ledger = ledger
                     /\ DOMAIN r.db.cands = DOMAIN cands
                     /\ \A o \in DOMAIN cands \ {c} : r.db.cands[o] = cands[o]
                     /\ new.status = old.status
                     /\ new.date = old.date
                     /\ new.category = old.category
                     /\ new.duplicateOfId = old.duplicateOfId
                     /\ new.importedTransactionId = old.importedTransactionId
                     /\ new.documentId = old.documentId
                     /\ new.lineNumber = old.lineNumber
                     /\ new.userCategory = IF u.category = None THEN old.userCategory
                                           ELSE The(u.category)
                     /\ new.description = IF u.description = None THEN old.description
                                          ELSE The(u.description)
                     /\ new.amount = IF u.amount = None THEN old.amount
                                     ELSE The(u.amount)
                     /\ new.type = IF u.type = None THEN old.type
                                   ELSE Upper(The(u.type))
                     /\ new.userNotes = IF u.notes = None THEN old.userNotes
                                        ELSE The(u.notes)

\* A candidate that was updated and has since been imported: a further update
\* of it is refused.
C12_Witness ==
    \E c \in DOMAIN cands :
        cands[c].userNotes = "note" /\ cands[c].status = "IMPORTED"

\* C13: in every reachable state every stored candidate has a strictly
\* positive magnitude and a present date. (Violated: update stores a supplied
\* magnitude of zero without validating it.)
C13_StoredCandidatesValid ==
    \A c \in DOMAIN cands : cands[c].amount > 0 /\ DatePresent(cands[c].date)

-----------------------------------------------------------------------------
(* The backend's text and the normalizer's search for JSON in it *)

\* The backend's text as a sequence of tokens: "{" and "}" are braces, "J"
\* is the text between the braces of a JSON object (json.loads accepts
\* "{" "J" "}" and returns `data`), "c" is commentary without a brace.
Text(tokens, data) == [tokens |-> tokens, data |-> data]

Min(S) == CHOOSE x \in S : \A y \in S : x <= y
Max(S) == CHOOSE x \in S : \A y \in S : x >= y

\* re.search(r'\{[\s\S]*\}', response): from the first "{" that a "}"
\* follows to the last "}" of the text.
Search(tokens) ==
    LET opens == {i \in DOMAIN tokens :
                    tokens[i] = "{" /\ \E j \in DOMAIN tokens : j > i /\ tokens[j] = "}"}
    IN  IF opens = {} THEN [found |-> FALSE, from |-> 0, to |-> 0]
        ELSE [found |-> TRUE, from |-> Min(opens),
              to |-> Max({j \in DOMAIN tokens : tokens[j] = "}"})]

\* json.loads(json_match.group()): the object, or BadJson for JSONDecodeError.
\* "{" "}" is the empty object, which has neither key.
Loads(tokens, data) ==
    IF tokens = <<"{", "J", "}">> THEN data
    ELSE IF tokens = <<"{", "}">> THEN JsonWith("missing", <<>>)
    ELSE BadJson

\* The first statements of _parse_llm_response: search and json.loads.
Decode(text) ==
    LET m == Search(text.tokens)
    IN  IF ~m.found THEN NoJson
        ELSE Loads(SubSeq(text.tokens, m.from, m.to), text.data)

\* extract from the backend's text on (steps 1 to 3 done as `stage` says)
ExtractText(stage, text) == Extract(stage, Decode(text))

\* The entries the backend's lists are made of.
NoNum == [tag |-> "missing", v |-> 0]
BadNum == [tag |-> "bad", v |-> 0]
EntryPool ==
    { RawGroceries, RawSalary, RawZero, RawNullType,
      Entry(Iso(2024, 1, 7), "FEE", NoNum, "expense", "Other"),
      Entry(EmptyDate, "NODATE", Num(5), "expense", "Other"),
      Entry(NoDate, "DATELESS", Num(5), "expense", "Other"),
      Entry(NullDate, "NULLDATE", Num(5), "expense", "Other"),
      Entry(DateText("number", 1, 0, 0, 0, FALSE), "NUMDATE", Num(5), "expense", "Other"),
      Entry(DateText("other", 1, 0, 0, 0, FALSE), "ODDDATE", Num(6), "income", "Other"),
      Entry(Iso(2024, 1, 8), "CARD", Num(7), "debit", "Other"),
      Entry(Iso(2024, 1, 9), "SHOP", Num(0 - 8), "Expense", "Other"),
      Entry(Iso(2024, 1, 10), "CASH", Num(9), Missing, "Other"),
      Entry(Iso(2024, 1, 11), "WORDS", BadNum, "expense", "Other"),
      Entry(Iso(2024, 1, 12), "CODE", Num(3), NotText, "Other"),
      [Entry(Iso(2024, 1, 13), "UNSURE", Num(4), "expense", "Other")
          EXCEPT !.confidence = "null"],
      [Entry(Iso(2024, 1, 14), "STRING", Num(4), "expense", "Other")
          EXCEPT !.kind = "notmap"] }

\* The lists: every list of at most two entries, and the lists of three
\* entries over four of them.
EntryLists ==
    {<<>>} \cup {<<e>> : e \in EntryPool} \cup {<<e, f>> : e, f \in EntryPool}
    \cup {<<e, f, g>> : e, f, g \in {RawGroceries, RawSalary, RawZero, RawNullType}}

TokenSeqs ==
    { <<"{", "J", "}">>, <<"c", "{", "J", "}", "c">>,
      <<"{", "J", "}", "c", "{", "c", "}">>, <<"{", "J", "}", "c", "}">>,
      <<"{", "J", "}", "{", "c">>,
      <<"c">>, <<>>, <<"{", "J">>, <<"}", "c", "{">>, <<"{", "}">>, <<"{", "c", "}">> }

\* The texts extract is called on: every list in a bare JSON object, and a
\* few lists in every arrangement of braces and commentary.
Texts ==
    {Text(<<"{", "J", "}">>, JsonWith(info, txns)) :
        info \in {"map", "missing", "null"}, txns \in EntryLists}
    \cup {Text(tokens, Json(txns)) :
            tokens \in TokenSeqs,
            txns \in {<<>>, <<RawGroceries>>, <<RawZero, RawSalary>>}}

\* extract, from the backend's answer on
ExtractCall ==
    /\ norm.op = "parse" /\ norm.step = 0
    /\ norm' = [op |-> "parse", step |-> 1, text |-> norm.text,
                result |-> ExtractText("ok", norm.text)]
    /\ UNCHANGED <<docs, cands, ledger, files, nextDoc, nextCand, nextLedger, pc>>

-----------------------------------------------------------------------------
(* The normalizer on its own: a call of _normalize_date, or of extract's    *)
(* normalizer step, on an input drawn at the start.                         *)

\* The date strings the calls are made on.
DateStrings ==
    {EmptyDate, DateText("blank", 0, 0, 0, 0, FALSE)}
    \cup {DateText("iso", y, m, d, 4, pad) :
            y \in {1999, 2024}, m \in {1, 2, 13}, d \in {5, 29, 45}, pad \in BOOLEAN}
    \cup {DateText(shape, a, b, y, 4, pad) :
            shape \in {"slash", "dash"}, a \in {0, 1, 2, 12, 13, 29, 31},
            b \in {1, 2, 12, 13, 30, 31}, y \in {2023, 2024}, pad \in BOOLEAN}
    \cup {DateText(shape, a, b, y, 2, pad) :
            shape \in {"slash", "dash"}, a \in {0, 1, 2, 12, 13, 29, 31},
            b \in {1, 2, 12, 13, 30, 31}, y \in {24, 68, 69}, pad \in BOOLEAN}
    \cup {DateText(shape, m, d, y, 4, pad) :
            shape \in {"Month d, Y", "Mon d, Y"}, m \in {2, 12},
            d \in {1, 29, 30, 31, 32}, y \in {2023, 2024}, pad \in BOOLEAN}
    \cup {DateText(shape, d, m, y, 4, pad) :
            shape \in {"d Month Y", "d Mon Y"}, m \in {2, 12},
            d \in {1, 29, 30, 31, 32}, y \in {2023, 2024}, pad \in BOOLEAN}
    \cup {DateText("other", a, 0, 0, 0, pad) : a \in {1, 2}, pad \in BOOLEAN}

\* _normalize_date(date_str)
NormalizeCall ==
    /\ norm.op = "date" /\ norm.step = 0
    /\ norm' = [op |-> "date", step |-> 1, d |-> norm.d, out |-> NormalizeDate(norm.d)]
    /\ UNCHANGED <<docs, cands, ledger, files, nextDoc, nextCand, nextLedger, pc>>

\* _normalize_date on what the first call returned
NormalizeAgain ==
    /\ norm.op = "date" /\ norm.step = 1
    /\ norm' = [op |-> "date", step |-> 2, d |-> norm.d, out |-> norm.out,
                again |-> NormalizeDate(norm.out)]
    /\ UNCHANGED <<docs, cands, ledger, files, nextDoc, nextCand, nextLedger, pc>>

\* The readings of the string d as a calendar date under the supported layouts.
Readings(d) == {dt \in {Strptime(d, Formats[i]) : i \in 1..Len(Formats)} : dt.ok}

InitNormalizer ==
    /\ docs = <<>> /\ cands = <<>> /\ ledger = PreLedger /\ files = {}
    /\ nextDoc = 1 /\ nextCand = 1 /\ nextLedger = 1 /\ pc = Idle
    /\ \/ \E d \in DateStrings : norm = [op |-> "date", step |-> 0, d |-> d]
       \/ \E t \in Texts : norm = [op |-> "parse", step |-> 0, text |-> t]

NextNormalizer ==
    \/ NormalizeCall
    \/ NormalizeAgain
    \/ ExtractCall

SpecNormalizer == InitNormalizer /\ [][NextNormalizer]_vars

RawOf(call) == Decode(call.text).transactions
Parsed == norm.op = "parse" /\ norm.step = 1

\* The entry is an object whose amount is a number other than zero and whose
\* date is a non-empty string.
HasAmountAndDate(t) ==
    /\ t.kind = "map"
    /\ t.amount.tag = "num" /\ t.amount.v # 0
    /\ t.date.shape \notin {"empty", "missing", "null", "number"}

\* The entry has, besides, a type that is a string (or none) and a
\* confidence that is a number (or none).
WellFormed(t) ==
    /\ HasAmountAndDate(t)
    /\ t.type \notin {NoneStr, NotText}
    /\ t.confidence # "null"

\* C14: every entry of the normalizer's result has a magnitude > 0 and a
\* non-empty date, and its magnitude is the absolute value of the amount of
\* the entry it was made from; an entry of the backend's list whose amount
\* is zero or missing, or whose date is empty or missing, is not in the
\* result; and when the normalizer succeeds, a well-formed entry with a
\* negative amount is in the result with the absolute value of that amount.
C14_AcceptedEntriesValid ==
    Parsed =>
        LET raw == RawOf(norm)
            res == norm.result.transactions
        IN  /\ \A k \in DOMAIN res :
                  /\ res[k].amount > 0
                  /\ res[k].date.shape \notin {"empty", "missing", "null"}
                  /\ \E i \in DOMAIN raw :
                        /\ raw[i].description = res[k].description
                        /\ raw[i].amount.tag = "num"
                        /\ res[k].amount \in {raw[i].amount.v, 0 - raw[i].amount.v}
            /\ \A i \in DOMAIN raw :
                  (raw[i].kind = "map" /\ ~HasAmountAndDate(raw[i])
                       /\ raw[i].date.shape # "number" /\ raw[i].amount.tag # "bad")
                      => \A k \in DOMAIN res : res[k].description # raw[i].description
            /\ \A i \in DOMAIN raw :
                  (norm.result.success /\ WellFormed(raw[i]) /\ raw[i].amount.v < 0)
                      => \E k \in DOMAIN res :
                            /\ res[k].description = raw[i].description
                            /\ res[k].amount = 0 - raw[i].amount.v

\* The normalizer was given an entry with a negative amount, one with amount
\* zero and a third: it returned two entries.
C14_Witness ==
    /\ Parsed
    /\ RawOf(norm) = <<RawGroceries, RawZero, RawSalary>>
    /\ Len(norm.result.transactions) = 2

\* C15: for every text whose JSON block parses, whatever its entries and its
\* statement_info are, the normalizer returns success and its result holds
\* every well-formed entry of the list. (Violated: an entry whose type is
\* null or no string, an entry that is no object, and a null statement_info
\* raise AttributeError, which turns the whole extraction into a failure.)
C15_BadEntrySkippedAlone ==
    (Parsed /\ Decode(norm.text).kind = "json") =>
        /\ norm.result.success
        /\ \A i \in DOMAIN RawOf(norm) :
              WellFormed(RawOf(norm)[i]) =>
                  \E k \in DOMAIN norm.result.transactions :
                      norm.result.transactions[k].description = RawOf(norm)[i].description

\* C16: every entry of the normalizer's result has the type 'expense' or
\* 'income'. (Violated: the type is lower-cased but not validated, so
\* 'debit' stays 'debit'.)
C16_TypeIsExpenseOrIncome ==
    Parsed =>
        \A k \in DOMAIN norm.result.transactions :
            norm.result.transactions[k].type \in {"expense", "income"}

\* The number of "{" less the number of "}" among the tokens i..j.
Balance(tokens, i, j) ==
    Cardinality({n \in i..j : tokens[n] = "{"}) - Cardinality({n \in i..j : tokens[n] = "}"})

\* The balanced brace-delimited blocks of the text, as pairs <<from, to>>.
BalancedBlocks(tokens) ==
    {b \in (DOMAIN tokens) \X (DOMAIN tokens) :
        /\ tokens[b[1]] = "{" /\ b[2] > b[1]
        /\ Balance(tokens, b[1], b[2]) = 0
        /\ \A j \in b[1]..(b[2] - 1) : Balance(tokens, b[1], j) > 0}

\* C17: the normalizer's result for a text is its result for the first
\* balanced brace-delimited block of the text alone, and a text without such
\* a block fails with the 'no JSON found' error. (Violated: the search runs
\* from the first "{" to the last "}" of the text, so a block followed by
\* commentary with a brace is not parsed.)
C17_FirstBalancedBlock ==
    Parsed =>
        LET tokens == norm.text.tokens
            blocks == BalancedBlocks(tokens)
        IN  IF blocks = {}
            THEN norm.result = Failure("No JSON found in LLM response")
            ELSE LET first == CHOOSE b \in blocks : \A o \in blocks : b[1] <= o[1]
                 IN  norm.result =
                         ExtractText("ok", Text(SubSeq(tokens, first[1], first[2]),
                                                norm.text.data))

\* C18: whenever a process call is in flight, the stored file is read and the
\* selected backend answers with a text that has no brace-delimited block,
\* the call leaves the document FAILED with the normalizer's 'no JSON found'
\* message stored, adds no candidate and changes nothing else; and process
\* accepts the document again.
C18_NoJsonFailsDocument ==
    pc # Idle =>
      \A tokens \in {t \in TokenSeqs : BalancedBlocks(t) = {}},
         avail \in {NoBackend, AllBackends}, override \in Overrides :
        LET d == pc.doc
            env == [fileOk |-> TRUE, avail |-> avail, configured |-> "", stage |-> "ok",
                    response |-> Decode(Text(tokens, Json(<<RawGroceries>>))),
                    failAt |-> 0]
            r == ProcessRun(DB, d, override, env, nextCand)
            again == ProcessClaim(r.db, d)
        IN  (override = NoneStr \/ IsAvailable(CreateLLMProvider(override), avail)) =>
              /\ r.db.docs[d].status = "FAILED"
              /\ r.db.docs[d].processingError = "No JSON found in LLM response"
              /\ r.db.cands = cands
              /\ r.db.ledger = ledger
              /\ \A x \in DOMAIN docs \ {d} : r.db.docs[x] = docs[x]
              /\ again.code = 0
              /\ again.db.docs[d].status = "PROCESSING"

\* A document that failed for want of JSON in the backend's text is being
\* processed again.
C18_Witness ==
    /\ pc # Idle
    /\ docs[pc.doc].status = "PROCESSING"
    /\ docs[pc.doc].processingError = "No JSON found in LLM response"

\* C19 as stated: the k-th entry of the normalizer's result has position k.
\* (Violated: the position is the entry's place in the backend's list, so
\* an accepted entry that follows a skipped one has a larger position.)
C19_PositionIsRank ==
    Parsed =>
        \A k \in DOMAIN norm.result.transactions :
            norm.result.transactions[k].line_number = k

\* C19, amended: every entry of the normalizer's result carries the 1-based
\* place of the entry it was made from in the backend's list; the places
\* increase along the result, the k-th accepted entry has a place of at
\* least k, and exactly k when every earlier entry of the list was accepted.
C19_PositionIsListIndex ==
    Parsed =>
        LET raw == RawOf(norm)
            res == norm.result.transactions
        IN  /\ \A k \in DOMAIN res :
                  /\ res[k].line_number \in DOMAIN raw
                  /\ raw[res[k].line_number].description = res[k].description
                  /\ res[k].line_number >= k
                  /\ res[k].line_number = k + Cardinality(
                         {i \in 1..(res[k].line_number - 1) :
                             \A j \in DOMAIN res : res[j].line_number # i})
            /\ \A k, l \in DOMAIN res : k < l => res[k].line_number < res[l].line_number

\* The first entry of the backend's list was skipped and a later one
\* accepted: the first accepted entry has a position above one.
C19_Witness ==
    /\ Parsed
    /\ Len(norm.result.transactions) >= 1
    /\ norm.result.transactions[1].line_number > 1

-----------------------------------------------------------------------------
(* Review, import and check-duplicates on their own: the handlers of        *)
(* routes/transactions.py on stored candidates and ledger rows drawn at the *)
(* start. The ledger (table transactions) belongs to the main application,  *)
(* which writes rows of its own to it.                                      *)

\* A row of pending_transactions as the INSERT of process_document and the
\* UPDATEs of the review handlers leave it.
StoredRow(d, status, amount, date, type, category, userCategory) ==
    [documentId |-> d, date |-> date, description |-> "ROW",
     amount |-> amount, type |-> type, category |-> category,
     userCategory |-> userCategory, userNotes |-> NoneStr, status |-> status,
     duplicateOfId |-> IF status = "DUPLICATE" THEN 0 - 1 ELSE NoId,
     importedTransactionId |-> IF status = "IMPORTED" THEN 0 - 3 ELSE NoId,
     lineNumber |-> 1]

StoredRows ==
    { StoredRow(1, "PENDING", 10, Iso(2024, 1, 5), "EXPENSE", "Groceries", NoneStr),
      StoredRow(1, "APPROVED", 10, Iso(2024, 1, 5), "EXPENSE", "Groceries", "Dining"),
      StoredRow(1, "PENDING", 40, Iso(2024, 1, 6), "INCOME", NoneStr, NoneStr),
      StoredRow(1, "APPROVED", 40, Iso(2024, 1, 6), "INCOME", NoneStr, ""),
      StoredRow(1, "REJECTED", 10, Iso(2024, 1, 5), "EXPENSE", "Groceries", NoneStr),
      StoredRow(1, "DUPLICATE", 10, Iso(2024, 1, 5), "EXPENSE", "Groceries", NoneStr),
      StoredRow(1, "IMPORTED", 10, Iso(2024, 1, 5), "EXPENSE", "Groceries", NoneStr),
      StoredRow(2, "PENDING", 10, Iso(2024, 1, 5), "EXPENSE", "Groceries", NoneStr) }

\* A row of transactions written by the main application.
MainRow(id, user, date, amount, type, description) ==
    [id |-> id, description |-> description, amount |-> amount, type |-> type,
     category |-> "Other", date |-> date, userId |-> user]

\* Amounts are in units of 0.005: 11 is 0.005 from 10, 12 is 0.01 and 14 is
\* 0.02 from it.
MainRows ==
    { MainRow(0 - 1, "u1", Iso(2024, 1, 5), 11, "expense", "WALMART 1234"),
      MainRow(0 - 2, "u2", Iso(2024, 1, 5), 10, "expense", "ROW"),
      MainRow(0 - 3, "u1", Iso(2024, 1, 5), 14, "expense", "ROW"),
      MainRow(0 - 4, "u1", Iso(2024, 1, 6), 10, "expense", "ROW"),
      MainRow(0 - 5, "u1", Iso(2024, 1, 5), 10, "income", "PAYCHECK"),
      MainRow(0 - 6, "u1", Iso(2024, 1, 5), 12, "expense", "ROW"),
      MainRow(0 - 7, "u1", Iso(2024, 1, 5), 9, "expense", "ROW") }

ReviewUpdates ==
    { [category |-> Some("Travel"), description |-> None, amount |-> None,
       type |-> Some("transfer"), notes |-> None] }

InitReview ==
    /\ docs = [d \in DocIds |-> [NewDocument("u1") EXCEPT !.status = "EXTRACTED",
                                                          !.transactionCount = 1]]
    /\ cands \in [CandIds -> StoredRows]
    /\ ledger \in {rows \in SUBSET MainRows : Cardinality(rows) <= MaxLedger}
    /\ files = {}
    /\ nextDoc = MaxDocs + 1
    /\ nextCand = MaxCands + 1
    /\ nextLedger = 1
    /\ pc = Idle
    /\ norm = NormIdle

NextReview ==
    \/ \E c \in CandIds, update \in ReviewUpdates : Update(c, update)
    \/ \E d \in DocIds : \E order \in Orders(Approved(DB, d)) : Import(d, order, 0)
    \/ \E d \in DocIds, user \in Users : \E first \in FirstMatches(DB, d, user) :
          CheckDups(d, user, first)

SpecReview == InitReview /\ [][NextReview]_vars

\* The ways check_duplicates can run on the present tables: the document,
\* the user, and the row that comes first for each candidate with a match.
DupCalls ==
    { <<d, user, first>> \in
          UNION {{<<d, user, first>> : first \in FirstMatches(DB, d, user)} :
                    <<d, user>> \in DocIds \X Users} :
        \A c \in DOMAIN first : first[c] \in {t.id : t \in Matches(DB, user, cands[c])} }

C22_OnlyMatchedPendingChange ==
    \A call \in DupCalls :
        LET d == call[1]
            user == call[2]
            after == CheckDuplicates(DB, d, user, call[3]).db
        IN  /\ after.docs = docs
            /\ after.ledger = ledger
            /\ DOMAIN after.cands = DOMAIN cands
            /\ \A c \in DOMAIN cands :
                  IF /\ cands[c].documentId = d
                     /\ cands[c].status = "PENDING"
                     /\ Matches(DB, user, cands[c]) # {}
                  THEN \E t \in Matches(DB, user, cands[c]) :
                          after.cands[c] = [cands[c] EXCEPT !.status = "DUPLICATE",
                                                            !.duplicateOfId = t.id]
                  ELSE after.cands[c] = cands[c]

\* check_duplicates has linked a candidate to a ledger row of another type
\* and left the PENDING candidate of the same document without a match alone.
C22_Witness ==
    /\ cands[1].status = "DUPLICATE" /\ cands[1].duplicateOfId = 0 - 5
    /\ cands[2].status = "PENDING" /\ cands[2].documentId = cands[1].documentId
    /\ cands[2].amount = 40
    /\ \E t \in ledger : t.id = 0 - 5

-----------------------------------------------------------------------------
(* Backend selection by the callers *)

\* extract_transactions (POST /extract) as a function of the request and of
\* the environment: the HTTPException raised inside the try block is caught
\* by `except Exception` and answered as 500.
ExtractTransactions(ct, size, override, env) ==
    LET named == override \notin {NoneStr, ""}
        provider == IF named THEN CreateLLMProvider(override)
                    ELSE GetBestAvailableProvider(env.configured, env.avail)
    IN  IF ct = NoneStr \/ ~IsPdfType(ct) THEN [code |-> 400, provider |-> NoneStr]
        ELSE IF size > MaxUploadBytes THEN [code |-> 400, provider |-> NoneStr]
        ELSE IF named /\ ~IsAvailable(provider, env.avail)
        THEN [code |-> 500, provider |-> NoneStr]
        ELSE [code |-> 200, provider |-> provider]

\* The environments differing in what the backends answer and in LLM_PROVIDER.
SelectionEnvs ==
    {[Env(Json(<<RawGroceries>>), 0) EXCEPT !.avail = avail, !.configured = configured] :
        avail \in Availabilities, configured \in Configured}

\* The variant a key names, if it names one of the three.
VariantOf(key) ==
    CASE key = "ollama" -> "Ollama"
      [] key = "openai" -> "OpenAI"
      [] key = "mock" -> "Mock"
      [] OTHER -> NoneStr

\* C23: when process or extract is called with an explicit override, the
\* backend used is the variant named and no other; when the variant named is
\* unavailable, or the name is none of the three variants, the call is
\* answered with 400 and no backend is used.
C23_NamedBackendOrClientError ==
    \A override \in Overrides \ {NoneStr}, env \in SelectionEnvs :
        LET usable == /\ VariantOf(override) # NoneStr
                      /\ IsAvailable(VariantOf(override), env.avail)
            e == ExtractTransactions("application/pdf", 1, override, env)
        IN  /\ IF usable THEN e.code = 200 /\ e.provider = VariantOf(override)
                         ELSE e.code = 400 /\ e.provider = NoneStr
            /\ pc # Idle =>
                  LET r == ProcessRun(DB, pc.doc, override, env, nextCand)
                  IN  IF usable THEN r.code = 200 /\ r.provider = VariantOf(override)
                                ELSE r.code = 400 /\ r.provider = NoneStr

\* The provider selection of process_document and extract_transactions:
\* `raised` is the HTTPException for a named provider that is not available.
SelectProvider(override, configured, avail) ==
    LET named == override \notin {NoneStr, ""}
        provider == IF named THEN CreateLLMProvider(override)
                    ELSE GetBestAvailableProvider(configured, avail)
    IN  IF named /\ ~IsAvailable(provider, avail)
        THEN [raised |-> TRUE, provider |-> NoneStr]
        ELSE [raised |-> FALSE, provider |-> provider]

ConfiguredNames == {"", "ollama", "openai", "mock", "bogus"}    \* LLM_PROVIDER
OverrideNames == {NoneStr, "", "ollama", "openai", "mock", "bogus"}

\* The selection on its own: a request, a value of LLM_PROVIDER and the
\* backends' answers drawn at the start.
InitSelect ==
    /\ docs = <<>> /\ cands = <<>> /\ ledger = PreLedger /\ files = {}
    /\ nextDoc = 1 /\ nextCand = 1 /\ nextLedger = 1 /\ pc = Idle
    /\ \E override \in OverrideNames, configured \in ConfiguredNames,
          avail \in Availabilities :
          norm = [op |-> "select", step |-> 0, override |-> override,
                  configured |-> configured, avail |-> avail]

SelectCall ==
    /\ norm.op = "select" /\ norm.step = 0
    /\ norm' = [norm EXCEPT !.step = 1] @@
               [selected |-> SelectProvider(norm.override, norm.configured, norm.avail)]
    /\ UNCHANGED <<docs, cands, ledger, files, nextDoc, nextCand, nextLedger, pc>>

NextSelect == SelectCall

SpecSelect == InitSelect /\ [][NextSelect]_vars

\* The fallback chain for a value of LLM_PROVIDER: the configured default
\* (a name that is none of the three is created as the mock), then
\* local inference, the cloud API and the mock.
Chain(configured) ==
    (IF configured = "" THEN <<>>
     ELSE <<IF VariantOf(configured) = NoneStr THEN "Mock" ELSE VariantOf(configured)>>)
    \o <<"Ollama", "OpenAI", "Mock">>

\* C24: with no explicit override the selection returns the first variant
\* of the chain configured default, local inference, cloud API, mock that
\* answers that it is available, whatever the variants answer; it always
\* returns one of the three variants, and the one returned answered that it
\* is available (the mock always does).
C24_FirstAvailableWins ==
    (norm.op = "select" /\ norm.step = 1 /\ norm.override \in {NoneStr, ""}) =>
        LET chain == Chain(norm.configured)
            answers(v) == v = "Mock" \/ norm.avail[v]
            first == Min({i \in DOMAIN chain : answers(chain[i])})
        IN  /\ ~norm.selected.raised
            /\ norm.selected.provider \in {"Ollama", "OpenAI", "Mock"}
            /\ norm.selected.provider = chain[first]
            /\ answers(norm.selected.provider)

\* The configured default is the cloud API, which is not available, and
\* local inference, which is, has been selected.
C24_Witness ==
    /\ norm.op = "select" /\ norm.step = 1 /\ norm.override = NoneStr
    /\ norm.configured = "openai"
    /\ ~norm.avail["OpenAI"] /\ norm.avail["Ollama"]
    /\ norm.selected.provider = "Ollama"

\* C25: the ledger row import writes for a candidate has as category the
\* candidate's user-edited category if there is one, else its backend
\* category if there is one, else "Other"; its type is "expense" for an
\* EXPENSE candidate and "income" for an INCOME candidate, and a candidate
\* whose stored type is neither is not written as income.
C25_ImportCategoryAndType ==
    \A d \in DocIds : \A order \in Orders(Approved(DB, d)) :
        LET after == ImportTransactions(DB, d, order, 0, nextLedger).db
        IN  \A k \in DOMAIN order :
                LET p == cands[order[k]]
                    row == CHOOSE t \in after.ledger : t.id = nextLedger + k - 1
                IN  /\ row.category =
                           IF p.userCategory \notin {NoneStr, ""} THEN p.userCategory
                           ELSE IF p.category \notin {NoneStr, ""} THEN p.category
                           ELSE "Other"
                    /\ p.type = "EXPENSE" => row.type = "expense"
                    /\ p.type = "INCOME" => row.type = "income"
                    /\ p.type \notin {"EXPENSE", "INCOME"} => row.type # "income"

-----------------------------------------------------------------------------
(* PDFParser (extractors/pdf_parser.py) *)

MaxPages == 2

\* What extract_text returns for a page: "" for a page without a text
\* layer (extract_text gives None or ""), "T" for a page with text.
PageTexts == {"", "T"}

Larger(a, b) == IF a >= b THEN a ELSE b

\* A PDF as the two libraries see it: n pages; text[i] and tables[i], the
\* text and the number of tables pdfplumber finds on page i; failAt = 0 if
\* pdfplumber raises nowhere, failAt = j if it raises while it is on page j
\* (at open, if j = 1), after pages 1..j-1; plain[i], the text PyPDF2 finds
\* on page i; plainFails, PyPDF2 raises.
Pdfs ==
    UNION {[n : {n}, text : [1..n -> PageTexts], tables : [1..n -> 0..1],
            failAt : 0..Larger(n, 1), plain : [1..n -> PageTexts],
            plainFails : BOOLEAN] : n \in 0..MaxPages}

\* PDFPage(page_number, text, tables); a table is told by its page.
PDFPage(i, text, tables) == [page_number |-> i, text |-> text, tables |-> tables]

\* f"--- Page {page_num} ---\n{text}"
TextPart(i, text) == [header |-> i, text |-> text]

\* The tables of page i, cleaned.
TablesOn(pdf, i) == IF pdf.tables[i] = 1 THEN <<i>> ELSE <<>>

\* all_tables after the first k passes of the loop over pdf.pages
RECURSIVE AllTables(_, _)
AllTables(pdf, k) ==
    IF k = 0 THEN <<>> ELSE AllTables(pdf, k - 1) \o TablesOn(pdf, k)

PDFContent(pages, parts, all_tables) ==
    [total_pages |-> Len(pages), pages |-> pages, full_text |-> parts,
     all_tables |-> all_tables]

\* _fallback_parse: pages and full_text_parts by PyPDF2, or its exception.
FallbackParse(pdf) ==
    [raised |-> pdf.plainFails,
     pages |-> [i \in 1..pdf.n |-> PDFPage(i, pdf.plain[i], <<>>)],
     parts |-> [i \in 1..pdf.n |-> TextPart(i, pdf.plain[i])]]

\* parse: the except clause replaces pages, full_text_parts and metadata by
\* the fallback's and leaves all_tables as the try block left it.
Parse(pdf) ==
    IF pdf.failAt = 0
    THEN [raised |-> FALSE,
          content |-> PDFContent([i \in 1..pdf.n |-> PDFPage(i, pdf.text[i], TablesOn(pdf, i))],
                                 [i \in 1..pdf.n |-> TextPart(i, pdf.text[i])],
                                 AllTables(pdf, pdf.n))]
    ELSE LET fb == FallbackParse(pdf)
         IN  IF fb.raised THEN [raised |-> TRUE, content |-> PDFContent(<<>>, <<>>, <<>>)]
             ELSE [raised |-> FALSE,
                   content |-> PDFContent(fb.pages, fb.parts,
                                          AllTables(pdf, pdf.failAt - 1))]

\* The parser on its own: a PDF drawn at the start.
InitParser ==
    /\ docs = <<>> /\ cands = <<>> /\ ledger = PreLedger /\ files = {}
    /\ nextDoc = 1 /\ nextCand = 1 /\ nextLedger = 1 /\ pc = Idle
    /\ \E pdf \in Pdfs : norm = [op |-> "pdf", step |-> 0, pdf |-> pdf]

\* parse(pdf_bytes)
ParseCall ==
    /\ norm.op = "pdf" /\ norm.step = 0
    /\ norm' = [op |-> "pdf", step |-> 1, pdf |-> norm.pdf, parsed |-> Parse(norm.pdf)]
    /\ UNCHANGED <<docs, cands, ledger, files, nextDoc, nextCand, nextLedger, pc>>

NextParser == ParseCall

SpecParser == InitParser /\ [][NextParser]_vars

\* C26: when pdfplumber raises at any point, also after some pages, and the
\* fallback succeeds, parse returns the fallback's result only: the page
\* texts are PyPDF2's, every page's table list is empty and the document's
\* table list is empty.
C26_FallbackResultOnly ==
    (norm.op = "pdf" /\ norm.step = 1 /\ norm.pdf.failAt # 0 /\ ~norm.parsed.raised) =>
        LET content == norm.parsed.content
        IN  /\ content.total_pages = norm.pdf.n
            /\ \A i \in 1..norm.pdf.n :
                  /\ content.pages[i].text = norm.pdf.plain[i]
                  /\ content.pages[i].tables = <<>>
            /\ content.all_tables = <<>>

-----------------------------------------------------------------------------
(* StatementExtractor.extract on a PDF, and process_document on it *)

\* not pdf_content.full_text.strip(): full_text joins the parts, and a part
\* begins with its "--- Page n ---" header, so full_text is blank only
\* when there is no part.
FullTextBlank(parts) == \A i \in DOMAIN parts : parts[i].header = 0

\* What the backend's complete does: it returns a text, raises, or times
\* out (httpx raises its timeout exception).
Answer(kind, text) == [kind |-> kind, text |-> text]

\* The mock's rows (providers/mock.py): n rows sorted by date, of type
\* "expense", with an amount from the range of their category (its two
\* ends are taken), and a date of the 31 days before today (2024-03-01).
MockMin == 15
MockMax == 25
MockCategories ==
    << "Groceries", "Dining", "Transportation", "Utilities",
       "Entertainment", "Shopping", "Healthcare", "Subscriptions" >>

\* round(random.uniform(lo, hi), 2), in units of 0.005
MockAmount(category, high) ==
    CASE category \in {"Utilities", "Subscriptions"} -> IF high THEN 30000 ELSE 2000
      [] category = "Groceries" -> IF high THEN 40000 ELSE 6000
      [] category = "Dining" -> IF high THEN 16000 ELSE 1600
      [] category = "Transportation" -> IF high THEN 20000 ELSE 3000
      [] OTHER -> IF high THEN 60000 ELSE 4000

\* (base_date + timedelta(days = k)).strftime("%Y-%m-%d"), base_date 2024-01-31
MockDate(k) ==
    IF k = 0 THEN Iso(2024, 1, 31) ELSE IF k <= 29 THEN Iso(2024, 2, k) ELSE Iso(2024, 3, 1)

MockRow(i, seed) ==
    LET category == MockCategories[((i + seed) % 8) + 1]
    IN  Entry(MockDate(IF i + 5 * seed > 30 THEN 30 ELSE i + 5 * seed),
              "WALMART #1000", Num(MockAmount(category, (i + seed) % 2 = 1)),
              "expense", category)

\* _generate_mock_transactions: the JSON has no "statement_info" key.
MockTransactions(n, seed) == [i \in 1..n |-> MockRow(i, seed)]
MockAnswers ==
    {Answer("text", Text(<<"{", "J", "}">>, JsonWith("missing", MockTransactions(n, seed)))) :
        n \in MockMin..MockMax, seed \in 0..1}

RemoteAnswers ==
    { Answer("raise", Text(<<>>, NoJson)), Answer("timeout", Text(<<>>, NoJson)),
      Answer("text", Text(<<"{", "J", "}">>, Json(<<RawGroceries>>))),
      Answer("text", Text(<<"c">>, Json(<<>>))) }

AnswersOf(provider) == IF provider = "Mock" THEN MockAnswers ELSE RemoteAnswers

\* Fault: complete is invoked a second time when it raised or timed out.
ExtractPdfRetries(provider, pdf, answer) ==
    LET parsed == Parse(pdf)
    IN  IF parsed.raised
        THEN [stage |-> "error", response |-> NoJson, calls |-> <<>>]
        ELSE IF FullTextBlank(parsed.content.full_text)
        THEN [stage |-> "notext", response |-> NoJson, calls |-> <<>>]
        ELSE IF answer.kind # "text"
        THEN [stage |-> "error", response |-> NoJson, calls |-> <<provider, provider>>]
        ELSE [stage |-> "ok", response |-> Decode(answer.text), calls |-> <<provider>>]

\* extract(pdf_bytes) with the backend `provider`, whose complete does
\* `answer` if it is invoked: the stage the steps before the normalizer end
\* in, the response the normalizer reads, and the backends whose complete
\* was invoked, in order.
ExtractPdf(provider, pdf, answer) ==
    LET parsed == Parse(pdf)
    IN  IF parsed.raised
        THEN [stage |-> "error", response |-> NoJson, calls |-> <<>>]
        ELSE IF FullTextBlank(parsed.content.full_text)
        THEN [stage |-> "notext", response |-> NoJson, calls |-> <<>>]
        ELSE IF answer.kind # "text"
        THEN [stage |-> "error", response |-> NoJson, calls |-> <<provider>>]
        ELSE [stage |-> "ok", response |-> Decode(answer.text), calls |-> <<provider>>]

\* The try block of process_document and its except handler on the PDF
\* stored for the document: what ProcessRun does, and the backends invoked.
ProcessPdf(db, d, override, avail, pdf, answer, firstId) ==
    LET selected == SelectProvider(override, "", avail)
        x == ExtractPdf(selected.provider, pdf, answer)
        env == [fileOk |-> TRUE, avail |-> avail, configured |-> "", stage |-> x.stage,
                response |-> x.response, failAt |-> 0]
    IN  [run |-> ProcessRun(db, d, override, env, firstId),
         calls |-> IF d \in files /\ ~selected.raised THEN x.calls ELSE <<>>]

\* The PDFs process_document is run on: both libraries read the same text,
\* and a table, if there is one, is on page 1.
StoredPdfs ==
    {pdf \in Pdfs : /\ pdf.plain = pdf.text
                    /\ pdf.plainFails => pdf.failAt # 0
                    /\ \A i \in 1..pdf.n : pdf.tables[i] = 1 => i = 1}

\* One uploaded document, whose stored binary is the PDF drawn at the start,
\* and the first process call on it.
InitExtract ==
    /\ docs = <<NewDocument("u1")>> /\ cands = <<>> /\ ledger = PreLedger /\ files = {1}
    /\ nextDoc = 2 /\ nextCand = 1 /\ nextLedger = 1 /\ pc = Idle
    /\ \E pdf \in StoredPdfs : norm = [op |-> "extract", step |-> 0, pdf |-> pdf]

\* The rest of process_document after PROCESSING is committed.
ProcessPdfEnd(avail, answer) ==
    /\ pc # Idle
    /\ norm.op = "extract"
    /\ LET p == ProcessPdf(DB, pc.doc, pc.llm_provider, avail, norm.pdf, answer, nextCand)
           r == p.run
       IN  /\ Install(r.db)
           /\ nextCand' = IF r.code = 200 /\ r.success
                          THEN nextCand + Len(r.result.transactions) ELSE nextCand
           /\ norm' = [op |-> "extract", step |-> 1, pdf |-> norm.pdf,
                       provider |-> r.provider, code |-> r.code, calls |-> p.calls,
                       answer |-> answer.kind,
                       listed |-> Len(answer.text.data.transactions),
                       transaction_count |-> Len(r.result.transactions)]
    /\ pc' = Idle
    /\ UNCHANGED <<files, nextDoc, nextLedger>>

NextExtract ==
    \/ \E override \in {NoneStr, "mock", "openai"} :
          norm.step = 0 /\ ProcessBegin(1, override)
    \/ \E avail \in Availabilities :
          \E answer \in AnswersOf(SelectProvider(pc.llm_provider, "", avail).provider) :
              ProcessPdfEnd(avail, answer)

SpecExtract == InitExtract /\ [][NextExtract]_vars

\* Neither library finds text on any page of the PDF.
NoPageHasText(pdf) == \A i \in 1..pdf.n : pdf.text[i] = "" /\ pdf.plain[i] = ""

\* C27: when no page of the document yields text (a scanned document of
\* one or more image-only pages, say) and the parser does not raise, the
\* extraction ends with the 'no extractable text' failure, which process
\* stores in the document, and the backend's complete is not invoked.
C27_NoTextIsDistinctFailure ==
    (/\ norm.op = "extract" /\ norm.step = 1
     /\ NoPageHasText(norm.pdf) /\ ~Parse(norm.pdf).raised
     /\ norm.code = 200) =>
        /\ norm.calls = <<>>
        /\ docs[1].status = "FAILED"
        /\ docs[1].processingError = "Could not extract text from PDF"

-----------------------------------------------------------------------------
(* Upload, and processing with the mock *)

\* C28: upload accepts a file (answers 200) if and only if its declared type
\* is PDF and its size is at most 10 MiB = 10485760 bytes, so a file of
\* exactly 10 MiB is accepted and one of a byte more is rejected; an
\* accepted upload stores the binary, adds exactly one document, in status
\* PENDING, and returns its id; a rejected upload stores no binary and adds
\* no document; neither touches another document, a candidate or the ledger.
C28_UploadAcceptsPdfWithinCeiling ==
    \A ct \in ContentTypes, size \in UploadSizes, user \in Users :
        LET r == UploadRun(DB, files, ct, size, user, nextDoc)
            pdf == ct \in {"application/pdf", "APPLICATION/PDF", "application/x-pdf"}
        IN  /\ r.code = 200 <=> (pdf /\ size <= 10485760)
            /\ r.code # 200 => r.code = 400 /\ r.db = DB /\ r.files = files
            /\ r.code = 200 =>
                  /\ r.document_id \notin DOMAIN docs
                  /\ DOMAIN r.db.docs = DOMAIN docs \cup {r.document_id}
                  /\ r.db.docs[r.document_id].status = "PENDING"
                  /\ r.db.docs[r.document_id].userId = user
                  /\ \A d \in DOMAIN docs : r.db.docs[d] = docs[d]
                  /\ r.files = files \cup {r.document_id}
                  /\ r.db.cands = cands /\ r.db.ledger = ledger

\* Two files of exactly 10 MiB have been uploaded, and each has its
\* document and its binary.
C28_Witness ==
    /\ DOMAIN docs = {1, 2} /\ files = {1, 2}
    /\ docs[2].status = "PENDING" /\ nextDoc = 3

\* C29: processing a document whose PDF has extractable text with the mock
\* backend (named, or selected for want of another) succeeds: the call
\* answers 200, the document is EXTRACTED, the transaction_count reported
\* and stored is between 15 and 25, it is the number of rows the mock
\* generated (every row passes normalization), and exactly that many
\* candidates of the document are stored, all PENDING.
C29_MockProcessSucceeds ==
    (/\ norm.op = "extract" /\ norm.step = 1 /\ norm.provider = "Mock"
     /\ ~Parse(norm.pdf).raised
     /\ \E i \in 1..norm.pdf.n : Parse(norm.pdf).content.pages[i].text # "") =>
        /\ norm.code = 200
        /\ norm.calls = <<"Mock">>
        /\ docs[1].status = "EXTRACTED"
        /\ norm.transaction_count \in 15..25
        /\ norm.transaction_count = norm.listed
        /\ docs[1].transactionCount = norm.transaction_count
        /\ Cardinality(DOMAIN cands) = norm.transaction_count
        /\ \A c \in DOMAIN cands :
              cands[c].documentId = 1 /\ cands[c].status = "PENDING"

\* The PDF of two pages, with a table on the first, has been processed with
\* the mock, which generated 25 rows.
C29_Witness ==
    /\ norm.op = "extract" /\ norm.step = 1 /\ norm.provider = "Mock"
    /\ norm.pdf.n = 2 /\ norm.pdf.tables[1] = 1 /\ norm.pdf.failAt = 0
    /\ norm.pdf.text = <<"T", "T">>
    /\ Cardinality(DOMAIN cands) = 25

\* C30: in one process call the backend's complete is invoked at most
\* once; when that invocation raises or times out, it is the only one, it
\* was made on the backend selected and on no other, and the call leaves
\* the document FAILED with the error text stored and no candidate.
C30_NoRetry ==
    (norm.op = "extract" /\ norm.step = 1) =>
        /\ Len(norm.calls) <= 1
        /\ (norm.calls # <<>> /\ norm.answer \in {"raise", "timeout"}) =>
              /\ norm.calls = <<norm.provider>>
              /\ norm.code = 200
              /\ docs[1].status = "FAILED"
              /\ docs[1].processingError = "Extraction failed"
              /\ cands = <<>>

\* The cloud API was named and available, its complete timed out, and the
\* document is FAILED.
C30_Witness ==
    /\ norm.op = "extract" /\ norm.step = 1
    /\ norm.answer = "timeout" /\ norm.calls = <<"OpenAI">>
    /\ docs[1].status = "FAILED"

-----------------------------------------------------------------------------
(* Review answers and terminal candidate statuses *)

\* C33: approve or reject on a candidate id that does not exist answers
\* 404, approve or reject on an existing candidate in a status the
\* operation does not take answers 400, and neither changes anything.
C33_MissingCandidateIs404 ==
    \A c \in 1..(MaxCands + 1) :
        LET a == ApproveTransaction(DB, c)
            r == RejectTransaction(DB, c)
        IN  /\ c \notin DOMAIN cands =>
                  a.code = 404 /\ r.code = 404 /\ a.db = DB /\ r.db = DB
            /\ (c \in DOMAIN cands /\ cands[c].status # "PENDING") =>
                  a.code = 400 /\ a.db = DB
            /\ (c \in DOMAIN cands /\ cands[c].status \notin {"PENDING", "APPROVED"}) =>
                  r.code = 400 /\ r.db = DB

\* C39: no step of approve, reject, bulk approve or reject, update,
\* check-duplicates, import (or process, or upload) changes the status of
\* a candidate that is REJECTED or DUPLICATE: as long as the candidate is
\* stored (bulk delete may remove it) it keeps its status.
C39_RejectedAndDuplicateAreTerminal ==
    [][\A c \in DOMAIN cands :
          (cands[c].status \in {"REJECTED", "DUPLICATE"} /\ c \in DOMAIN cands')
              => cands'[c].status = cands[c].status]_vars

\* A candidate flagged DUPLICATE and a REJECTED one are stored, and a
\* document is EXTRACTED.
C39_Witness ==
    /\ DOMAIN cands = {1, 2}
    /\ {cands[1].status, cands[2].status} \subseteq {"DUPLICATE", "REJECTED"}
    /\ cands[1].status # cands[2].status
    /\ \E d \in DOMAIN docs : docs[d].status = "EXTRACTED"

\* C40: when the backend's text holds a parseable block with no
\* transactions, or with entries that are all skipped, the process call
\* ends the document EXTRACTED with candidate count 0 and stores no
\* candidate; and no step changes a document that is EXTRACTED with count 0
\* (process is refused by the guard, import finds no APPROVED candidate).
C40_EmptyExtractionIsFinal ==
    /\ [](pc # Idle =>
            \A txns \in {<<>>, <<RawZero>>, <<RawZero, RawZero>>} :
                LET r == ProcessRun(DB, pc.doc, pc.llm_provider, Env(Json(txns), 0),
                                    nextCand)
                    again == ProcessClaim(r.db, pc.doc)
                    import == ImportTransactions(r.db, pc.doc, <<>>, 0, nextLedger)
                IN  (pc.llm_provider = NoneStr /\ pc.doc \in files) =>
                        /\ r.code = 200 /\ r.success
                        /\ r.db.docs[pc.doc].status = "EXTRACTED"
                        /\ r.db.docs[pc.doc].transactionCount = 0
                        /\ r.db.cands = cands
                        /\ again.code = 400 /\ again.db = r.db
                        /\ import.code = 400 /\ import.db = r.db)
    /\ [][\A d \in DOMAIN docs :
            (docs[d].status = "EXTRACTED" /\ docs[d].transactionCount = 0)
                => (d \in DOMAIN docs' /\ docs'[d] = docs[d])]_vars

\* A document is EXTRACTED with count 0 while another has been processed
\* into candidates.
C40_Witness ==
    /\ \E d \in DOMAIN docs :
          docs[d].status = "EXTRACTED" /\ docs[d].transactionCount = 0
    /\ cands # <<>>

-----------------------------------------------------------------------------
(* Every process call ends *)

\* process_document is one coroutine: each of its awaits returns or raises
\* (the backend call has a timeout), so a call that has committed PROCESSING
\* reaches its return or its except handler.
SpecLive == Spec /\ WF_vars(\E env \in ProcessEnvs : ProcessEnd(env))

-----------------------------------------------------------------------------
(* Overlapping calls *)

\* The handlers suspend at every await, so the statements of two calls
\* interleave. The database runs each session at READ COMMITTED: a SELECT
\* takes no lock and sees what is committed, and what a session wrote becomes
\* visible at its commit. A call in flight is a record: op, the handler; at,
\* where it is suspended; cand, order and read, what it keeps from its SELECTs.
MaxCalls == 2
Calls == 1..MaxCalls
\* The document the calls are about: the first one uploaded.
TheDoc == CHOOSE d \in DocIds : \A e \in DocIds : d <= e
CallIdle == [op |-> "idle", at |-> "idle", cand |-> NoId, order |-> <<>>, read |-> <<>>]
Call(op, at) == [CallIdle EXCEPT !.op = op, !.at = at]

\* Fault: the lookup claims the document in the same statement.
ProcessLookupClaims(db, d) ==
    IF d \notin DOMAIN db.docs THEN Outcome(db, 404)
    ELSE IF ~Processable(db.docs[d].status) THEN Outcome(db, 400)
    ELSE Outcome([db EXCEPT !.docs = [@ EXCEPT ![d].status = "PROCESSING"]], 0)

\* process_document, the SELECT and the guard on what it returned.
ProcessLookup(db, d) ==
    IF d \notin DOMAIN db.docs THEN Outcome(db, 404)
    ELSE IF ~Processable(db.docs[d].status) THEN Outcome(db, 400)
    ELSE Outcome(db, 0)

\* UPDATE bank_documents SET status = 'PROCESSING' WHERE id = :id; commit
ProcessMark(db, d) == [db EXCEPT !.docs = [@ EXCEPT ![d].status = "PROCESSING"]]

\* import_transactions after its SELECTs: the loop over the rows `read`, the
\* document UPDATE and the commit.
ImportStore(db, d, read, order, firstId) ==
    Commit(db, DocImported(ImportLoop(db, read, order, 2 * Len(order), firstId,
                                      db.docs[d].userId), d))

\* The edit the overlapping update_transaction call asks for.
Recategorize ==
    [category |-> Some("Dining"), description |-> None, amount |-> None,
     type |-> None, notes |-> None]

\* update_transaction after its SELECT: UPDATE pending_transactions
\*   SET ... WHERE id = :id; commit
UpdateStore(db, c, update) ==
    [db EXCEPT !.cands =
        [x \in DOMAIN @ |->
            IF x = c
            THEN [@[x] EXCEPT
                    !.userCategory = IF update.category # None
                                     THEN The(update.category) ELSE @,
                    !.description = IF update.description # None
                                    THEN The(update.description) ELSE @,
                    !.amount = IF update.amount # None THEN The(update.amount) ELSE @,
                    !.type = IF update.type # None THEN Upper(The(update.type)) ELSE @,
                    !.userNotes = IF update.notes # None THEN The(update.notes) ELSE @]
            ELSE @[x]]]

\* The environments of the overlapping process calls.
RaceEnvs == { Env(Json(<<RawGroceries>>), 0), Env(NoJson, 0) }

ProcessCheck(k, d) ==
    /\ pc[k].at = "idle"
    /\ LET r == ProcessLookup(DB, d)
       IN  /\ r.code = 0
           /\ Install(r.db)
    /\ pc' = [pc EXCEPT ![k] = Call("process", "checked")]
    /\ UNCHANGED <<files, nextDoc, nextCand, nextLedger, norm>>

ProcessWrite(k) ==
    /\ pc[k].op = "process" /\ pc[k].at = "checked"
    /\ Install(ProcessMark(DB, TheDoc))
    /\ pc' = [pc EXCEPT ![k] = Call("process", "running")]
    /\ UNCHANGED <<files, nextDoc, nextCand, nextLedger, norm>>

ProcessFinish(k, env) ==
    /\ pc[k].op = "process" /\ pc[k].at = "running"
    /\ LET r == ProcessRun(DB, TheDoc, NoneStr, env, nextCand)
       IN  /\ nextCand + Len(r.result.transactions) - 1 <= MaxCands
           /\ Install(r.db)
           /\ nextCand' = IF r.code = 200 /\ r.success
                          THEN nextCand + Len(r.result.transactions) ELSE nextCand
    /\ pc' = [pc EXCEPT ![k] = CallIdle]
    /\ UNCHANGED <<files, nextDoc, nextLedger, norm>>

ImportRead(k, d, order) ==
    /\ pc[k].at = "idle"
    /\ d \in DOMAIN docs
    /\ Approved(DB, d) # {}
    /\ pc' = [pc EXCEPT ![k] = [Call("import", "read") EXCEPT
                                   !.order = order,
                                   !.read = Restrict(cands, Approved(DB, d))]]
    /\ UNCHANGED <<docs, cands, ledger, files, nextDoc, nextCand, nextLedger, norm>>

ImportWrite(k) ==
    /\ pc[k].op = "import" /\ pc[k].at = "read"
    /\ nextLedger + Len(pc[k].order) - 1 <= MaxLedger
    /\ Install(ImportStore(DB, TheDoc, pc[k].read, pc[k].order, nextLedger))
    /\ nextLedger' = nextLedger + Len(pc[k].order)
    /\ pc' = [pc EXCEPT ![k] = CallIdle]
    /\ UNCHANGED <<files, nextDoc, nextCand, norm>>

DupRead(k, d, user, first) ==
    /\ pc[k].at = "idle"
    /\ DOMAIN first # {}
    /\ \A c \in DOMAIN first : first[c] \in {t.id : t \in Matches(DB, user, cands[c])}
    /\ pc' = [pc EXCEPT ![k] = [Call("check-duplicates", "read") EXCEPT !.read = first]]
    /\ UNCHANGED <<docs, cands, ledger, files, nextDoc, nextCand, nextLedger, norm>>

DupWrite(k) ==
    /\ pc[k].op = "check-duplicates" /\ pc[k].at = "read"
    /\ Install(MarkDuplicates(DB, pc[k].read))
    /\ pc' = [pc EXCEPT ![k] = CallIdle]
    /\ UNCHANGED <<files, nextDoc, nextCand, nextLedger, norm>>

UpdateRead(k, c) ==
    /\ pc[k].at = "idle"
    /\ UpdateTransaction(DB, c, Recategorize).code = 200
    /\ pc' = [pc EXCEPT ![k] = [Call("update", "read") EXCEPT !.cand = c]]
    /\ UNCHANGED <<docs, cands, ledger, files, nextDoc, nextCand, nextLedger, norm>>

UpdateWrite(k) ==
    /\ pc[k].op = "update" /\ pc[k].at = "read"
    /\ Install(UpdateStore(DB, pc[k].cand, Recategorize))
    /\ pc' = [pc EXCEPT ![k] = CallIdle]
    /\ UNCHANGED <<files, nextDoc, nextCand, nextLedger, norm>>

\* approve_transaction and reject_transaction are one UPDATE each.
ApproveNow(c) ==
    /\ ApproveTransaction(DB, c).code = 200
    /\ Install(ApproveTransaction(DB, c).db)
    /\ UNCHANGED <<files, nextDoc, nextCand, nextLedger, pc, norm>>

RejectNow(c) ==
    /\ RejectTransaction(DB, c).code = 200
    /\ Install(RejectTransaction(DB, c).db)
    /\ UNCHANGED <<files, nextDoc, nextCand, nextLedger, pc, norm>>

\* One document has been uploaded by u1 and no call is in flight.
InitConcurrent ==
    /\ docs = (TheDoc :> NewDocument("u1"))
    /\ cands = <<>>
    /\ ledger = PreLedger
    /\ files = {TheDoc}
    /\ nextDoc = TheDoc + 1
    /\ nextCand = 1
    /\ nextLedger = 1
    /\ pc = [k \in Calls |-> CallIdle]
    /\ norm = NormIdle

NextConcurrent ==
    \/ \E k \in Calls : ProcessCheck(k, TheDoc)
    \/ \E k \in Calls : ProcessWrite(k)
    \/ \E k \in Calls, env \in RaceEnvs : ProcessFinish(k, env)
    \/ \E k \in Calls : \E order \in Orders(Approved(DB, TheDoc)) :
          ImportRead(k, TheDoc, order)
    \/ \E k \in Calls : ImportWrite(k)
    \/ \E k \in Calls : \E first \in FirstMatches(DB, TheDoc, "u1") :
          DupRead(k, TheDoc, "u1", first)
    \/ \E k \in Calls : DupWrite(k)
    \/ \E k \in Calls, c \in CandIds : UpdateRead(k, c)
    \/ \E k \in Calls : UpdateWrite(k)
    \/ \E c \in CandIds : ApproveNow(c)
    \/ \E c \in CandIds : RejectNow(c)

SpecConcurrent == InitConcurrent /\ [][NextConcurrent]_vars

\* The calls suspended at a place of a handler.
CallsAt(op, at) == {k \in Calls : pc[k].op = op /\ pc[k].at = at}

\* C32: the lookup of process_document writes nothing, so after one call has
\* passed the guard every other call's lookup of the same document passes
\* too until PROCESSING is committed; and a call that has passed the guard
\* commits PROCESSING and runs the pipeline whatever the status has become.
C32_GuardGivesNoMutualExclusion ==
    [][\A k \in Calls :
          /\ (pc[k].at = "idle" /\ pc'[k].at = "checked")
                => /\ DB' = DB
                   /\ ProcessLookup(DB', TheDoc).code = 0
          /\ (pc[k].at = "checked" /\ pc'[k] # pc[k])
                => /\ pc'[k].at = "running"
                   /\ docs'[TheDoc].status = "PROCESSING"]_vars

\* Two calls run the pipeline on the same document.
C32_Witness == Cardinality(CallsAt("process", "running")) = 2

\* The ledger rows import has inserted (the main application's own rows
\* have ids below 1).
ImportedLedger == {t \in ledger : t.id >= 1}

\* C34: while process and import calls on the document overlap, its status
\* never moves backward: an EXTRACTED document does not become FAILED or
\* PROCESSING, an IMPORTED one does not become EXTRACTED, FAILED or PROCESSING.
C34_StatusNeverMovesBackward ==
    [][\A d \in DOMAIN docs :
          /\ docs[d].status = "EXTRACTED"
                => docs'[d].status \notin {"FAILED", "PROCESSING"}
          /\ docs[d].status = "IMPORTED"
                => docs'[d].status \notin {"EXTRACTED", "FAILED", "PROCESSING"}]_vars

\* C35: while process calls on the document overlap, an EXTRACTED document's
\* recorded count is the number of candidates stored for it, and a FAILED
\* document holds no candidate.
C35_CountMatchesOneRun ==
    \A d \in DOMAIN docs :
        /\ docs[d].status = "EXTRACTED"
              => docs[d].transactionCount = Cardinality(CandsOfDoc(cands, d))
        /\ docs[d].status = "FAILED" => CandsOfDoc(cands, d) = {}

\* C36: when import calls overlap, a candidate gets at most one ledger row
\* (import has inserted no more rows than there are candidates with a
\* link) and the link of a candidate, once written, is not written again.
C36_OneLedgerRowPerCandidate ==
    /\ [](Cardinality(ImportedLedger)
             <= Cardinality({c \in DOMAIN cands : cands[c].importedTransactionId # NoId}))
    /\ [][\A c \in DOMAIN cands :
            cands[c].importedTransactionId # NoId
                => cands'[c].importedTransactionId = cands[c].importedTransactionId]_vars

\* C37: when a reject commits between import's read and import's write, the
\* candidate does not go from REJECTED to IMPORTED, and no ledger row is
\* inserted for a candidate that is REJECTED at that moment.
C37_RejectedIsNotImported ==
    [][\A c \in DOMAIN cands :
          cands[c].status = "REJECTED"
              => /\ cands'[c].status # "IMPORTED"
                 /\ (\A x \in DOMAIN cands \ {c} : cands'[x] = cands[x])
                        => ImportedLedger' = ImportedLedger]_vars

\* C38: the later write of check-duplicates or of update is not applied to a
\* candidate that has been imported since the call read it: an IMPORTED
\* candidate keeps its status, its duplicate link and its edited fields.
C38_ImportedStaysAsItIs ==
    [][\A c \in DOMAIN cands :
          cands[c].status = "IMPORTED"
              => /\ cands'[c].status = "IMPORTED"
                 /\ cands'[c].duplicateOfId = cands[c].duplicateOfId
                 /\ cands'[c].userCategory = cands[c].userCategory
                 /\ cands'[c].description = cands[c].description
                 /\ cands'[c].amount = cands[c].amount
                 /\ cands'[c].type = cands[c].type
                 /\ cands'[c].userNotes = cands[c].userNotes]_vars

====
